---------------------------- MODULE Spec2Model ----------------------------
(***************************************************************************)
(* Model of the dnsFilterApp query path: the filter engine                 *)
(* (internal/filter/engine.go), the DNS server pipeline                    *)
(* (internal/dns/server.go), the response cache (DNSCache) and the         *)
(* upstream pool.                                                          *)
(*                                                                         *)
(* Strings are sequences of one-character strings, so that the string      *)
(* functions the code uses (ToLower, TrimSpace, TrimSuffix, HasPrefix,     *)
(* HasSuffix, Split, Join) are computed and not assumed.                   *)
(***************************************************************************)
EXTENDS Integers, Sequences, FiniteSets, TLC

VARIABLES
    \* ---- filter.Engine (engine.go:35-44) and the configuration it reads
    blockedDomains,   \* Engine.blockedDomains: the remote set
    customBlocked,    \* Engine.customBlocked
    whitelist,        \* Engine.whitelist
    cfg,              \* *config.Config: the fields the query path reads
    wallClock,        \* time.Now() as isInAllowedTime sees it: [day, hhmm]
    call,             \* the last completed sequential ShouldBlock call
    \* ---- dns.DNSCache (database.go:674-684)
    entries,          \* DNSCache.entries: key -> [response, timestamp, seq]
    now,              \* time.Now() as the cache sees it (a counter)
    setCount,         \* number of Set calls so far (numbers the insertions)
    maxSize,          \* DNSCache.maxSize
    clearedAt,        \* setCount when Clear last returned
    got,              \* the last completed Get call of the cache on its own
    \* ---- dns.Server (server.go:17-34)
    stats,            \* Server.stats: the three counters
    h,                \* the handler tasks: one handleDNSRequest call each
    replies,          \* what each handler wrote with w.WriteMsg
    blockLog,         \* rows written by db.LogBlockedQuery
    index,            \* UpstreamPool.index
    pendingClear,     \* domains added to custom since the last ClearCache
    enforced,         \* domains added to custom and followed by a ClearCache
    \* ---- Engine.mu and the tasks that run UpdateBlocklists and ShouldBlock
    mu,               \* Engine.mu: the number of read locks held
    u,                \* the UpdateBlocklists calls (API, auto-updater)
    rd,               \* the concurrent ShouldBlock calls
    swapNo,           \* number of replacements of blockedDomains so far
    returnedNo,       \* the latest replacement whose UpdateBlocklists returned
    complete,         \* the sets that a finished build produced
    dbBlocklist,      \* the blocklist table of the database
    \* ---- dns.UpstreamPool (part_005:8-12) on its own
    servers,          \* UpstreamPool.servers
    picks,            \* the servers that completed Get calls returned
    getters,          \* the tasks that call Get
    \* ---- the custom YAML file and the CLI that edits it (dns-cli.sh)
    yaml,             \* the domains of the enabled entries of the YAML file
    cli,              \* the CLI command under way: [pc, d]
    unblocked,        \* domains whose unblock command has completed
    fromSources,      \* what the remote sources delivered to the last update
    \* ---- the admin API (docs/QUICKSTART.md:494-583) and the auto-updater
    adm,              \* the latest admin operation: [op, by, done, seq]
    \* ---- the dns.Msg objects of the cache and of its callers
    heap,             \* the messages allocated: object -> content
    held,             \* the objects that callers of the cache hold
    \* ---- the custom YAML files and the calls that load them
    files,            \* the files the glob of cfg.Blocklists.CustomPath returns
    apiCustom,        \* domains added by AddToCustomBlocklist, not removed since
    fetches,          \* number of fetchBlocklist calls made so far
    last,             \* the latest operation: [op, arg]
    \* ---- the ShouldBlock calls that run beside the admin mutators
    could,            \* per call: the decisions of the states it ran across
    \* ---- the tasks that call Server.GetStats
    gs,               \* per task: [pc, total, blocked, cached, at]
    \* ---- one blocklist body and what fetchBlocklist makes of it
    body,             \* the lines of the body, as the scanner yields them
    ing,              \* the domains returned: [did, http, file]
    \* ---- the mutexes of the server and the tasks that take them
    lk,               \* per mutex: [readers, writer, queue, blocked]
    tk                \* per task: [prog, pc, next]

filterVars == <<blockedDomains, customBlocked, whitelist, cfg, wallClock>>
cacheVars == <<entries, now, setCount, clearedAt, maxSize>>
serverVars == <<stats, h, replies, blockLog, index, pendingClear, enforced>>
updVars == <<mu, u, rd, swapNo, returnedNo, complete, dbBlocklist>>
poolVars == <<servers, picks, getters>>
cliVars == <<yaml, cli, unblocked, fromSources>>
admVars == <<adm, heap, held>>
restVars == <<files, apiCustom, fetches, last, could, gs>>
ingestVars == <<body, ing>>
lockVars == <<lk, tk>>
vars == <<blockedDomains, customBlocked, whitelist, cfg, wallClock, call,
          entries, now, setCount, clearedAt, maxSize, got,
          stats, h, replies, blockLog, index, pendingClear, enforced,
          mu, u, rd, swapNo, returnedNo, complete, dbBlocklist,
          servers, picks, getters, yaml, cli, unblocked, fromSources,
          adm, heap, held, files, apiCustom, fetches, last, could, gs,
          body, ing, lk, tk>>

-----------------------------------------------------------------------------
(* Go's strings package, on sequences of characters.                       *)

\* strings.ToLower on one character of the alphabet used here
LowerChar(c) ==
    CASE c = "A" -> "a"
      [] c = "B" -> "b"
      [] c = "W" -> "w"
      [] c = "X" -> "x"
      [] OTHER -> c

\* strings.ToLower
ToLower(s) == [i \in 1..Len(s) |-> LowerChar(s[i])]

RECURSIVE TrimLeftSpace(_)
TrimLeftSpace(s) ==
    IF s # <<>> /\ Head(s) = " " THEN TrimLeftSpace(Tail(s)) ELSE s

RECURSIVE TrimRightSpace(_)
TrimRightSpace(s) ==
    IF s # <<>> /\ s[Len(s)] = " "
    THEN TrimRightSpace(SubSeq(s, 1, Len(s) - 1))
    ELSE s

\* strings.TrimSpace
TrimSpace(s) == TrimRightSpace(TrimLeftSpace(s))

\* strings.HasPrefix
HasPrefix(s, p) == Len(p) <= Len(s) /\ SubSeq(s, 1, Len(p)) = p

\* strings.HasSuffix
HasSuffix(s, p) ==
    Len(p) <= Len(s) /\ SubSeq(s, Len(s) - Len(p) + 1, Len(s)) = p

\* strings.TrimPrefix: removes one leading occurrence of p
TrimPrefix(s, p) ==
    IF HasPrefix(s, p) THEN SubSeq(s, Len(p) + 1, Len(s)) ELSE s

\* strings.TrimSuffix: removes one trailing occurrence of p
TrimSuffix(s, p) ==
    IF HasSuffix(s, p) THEN SubSeq(s, 1, Len(s) - Len(p)) ELSE s

\* strings.Split(s, sep) for a one-character separator: always at least one
\* part, empty parts kept
RECURSIVE Split(_, _)
Split(s, sep) ==
    IF \A i \in 1..Len(s) : s[i] # sep
    THEN <<s>>
    ELSE LET k == CHOOSE i \in 1..Len(s) :
                      s[i] = sep /\ \A j \in 1..(i - 1) : s[j] # sep
         IN  <<SubSeq(s, 1, k - 1)>> \o Split(SubSeq(s, k + 1, Len(s)), sep)

\* strings.Join(parts, sep)
RECURSIVE Join(_, _)
Join(parts, sep) ==
    IF Len(parts) = 0 THEN <<>>
    ELSE IF Len(parts) = 1 THEN parts[1]
    ELSE parts[1] \o <<sep>> \o Join(Tail(parts), sep)

\* Go's string comparison (<=) on the digits and ':' of "HH:MM" strings
CharOrd(c) ==
    CASE c = "0" -> 48 [] c = "1" -> 49 [] c = "2" -> 50 [] c = "3" -> 51
      [] c = "4" -> 52 [] c = "5" -> 53 [] c = "6" -> 54 [] c = "7" -> 55
      [] c = "8" -> 56 [] c = "9" -> 57 [] c = ":" -> 58 [] OTHER -> 0

RECURSIVE StrLeq(_, _)
StrLeq(s, t) ==
    IF s = <<>> THEN TRUE
    ELSE IF t = <<>> THEN FALSE
    ELSE IF CharOrd(Head(s)) < CharOrd(Head(t)) THEN TRUE
    ELSE IF CharOrd(Head(s)) > CharOrd(Head(t)) THEN FALSE
    ELSE StrLeq(Tail(s), Tail(t))

-----------------------------------------------------------------------------
(* The names and patterns the model draws its inputs from.                 *)

N_empty == <<>>
N_dot   == <<".">>
N_b     == <<"b">>
N_ab    == <<"a", ".", "b">>                  \* "a.b"
N_abdot == <<"a", ".", "b", ".">>             \* "a.b." as it is on the wire
N_ABdot == <<"A", ".", "B", ".">>             \* "A.B." (mixed-case query)
N_wab   == <<"w", ".", "a", ".", "b">>        \* "w.a.b", a child of a.b
N_wabdot == <<"w", ".", "a", ".", "b", ".">>
N_xab   == <<"x", "a", ".", "b">>             \* "xa.b": ends with "a.b"
N_xabdot == <<"x", "a", ".", "b", ".">>
N_spab  == <<" ", "a", ".", "b">>             \* " a.b" (admin input)
P_ab    == <<"*", ".", "a", ".", "b">>        \* "*.a.b"
P_b     == <<"*", ".", "b">>                  \* "*.b"

\* the names a handler may be asked about (question names, API inputs)
QueryNames ==
    {N_empty, N_dot, N_b, N_ab, N_abdot, N_ABdot, N_wab, N_wabdot, N_xab, N_xabdot}

\* what the admin API may add to the custom blocklist
CustomInputs == {N_empty, N_dot, N_b, N_ab, N_ABdot, N_wab, N_spab}

\* what the admin API or the configuration may put on the whitelist
WhitelistInputs == {N_ab, N_wab, P_ab, P_b}

\* blocklists that the database may hold at startup (LoadBlocklist)
StoredBlocklists == {{N_ab}, {N_b}, {N_ab, N_xab}}

T0800 == <<"0", "8", ":", "0", "0">>
T1200 == <<"1", "2", ":", "0", "0">>
T1700 == <<"1", "7", ":", "0", "0">>
T2200 == <<"2", "2", ":", "0", "0">>

Rule(days, start, end, strict) ==
    [Days |-> days, StartTime |-> start, EndTime |-> end, StrictMode |-> strict]

\* filtering.schedule as the configuration may give it
Schedules ==
    { [Enabled |-> FALSE, Rules |-> <<Rule({"monday"}, T0800, T1700, TRUE)>>],
      [Enabled |-> TRUE,  Rules |-> <<>>],
      [Enabled |-> TRUE,  Rules |-> <<Rule({"monday"}, T0800, T1700, TRUE)>>],
      [Enabled |-> TRUE,  Rules |-> <<Rule({"monday"}, T0800, T1700, FALSE)>>],
      [Enabled |-> TRUE,  Rules |-> <<Rule({"sunday"}, T0800, T1700, FALSE),
                                      Rule({"monday"}, T0800, T1200, TRUE)>>] }

WallClocks == [day : {"monday", "sunday"}, hhmm : {T0800, T1200, T2200}]

-----------------------------------------------------------------------------
(* filter.Engine                                                           *)

\* normalizeDomain (engine.go:431-435)
normalizeDomain(domain) == TrimSuffix(ToLower(TrimSpace(domain)), <<".">>)

\* isWhitelisted with the wildcard matched at a label boundary only
\* ("*.S" matches names ending in ".S")
isWhitelisted_LabelBoundary(domain) ==
    \/ domain \in whitelist
    \/ \E whitelistedDomain \in whitelist :
          /\ HasPrefix(whitelistedDomain, <<"*", ".">>)
          /\ HasSuffix(domain, TrimPrefix(whitelistedDomain, <<"*">>))

\* Engine.isWhitelisted (engine.go:129-147)
isWhitelisted(domain) ==
    \/ domain \in whitelist
    \/ \E whitelistedDomain \in whitelist :
          /\ HasPrefix(whitelistedDomain, <<"*", ".">>)
          /\ HasSuffix(domain, TrimPrefix(whitelistedDomain, <<"*", ".">>))

\* Engine.isInAllowedTime (engine.go:149-175); rule.Days are lowercased by
\* the code before the comparison, and are given in lower case here
isInAllowedTime ==
    LET Rules == cfg.Schedule.Rules IN
    IF Len(Rules) = 0 THEN TRUE
    ELSE ~ \E i \in 1..Len(Rules) :
              /\ wallClock.day \in Rules[i].Days
              /\ StrLeq(Rules[i].StartTime, wallClock.hhmm)
              /\ StrLeq(wallClock.hhmm, Rules[i].EndTime)

\* the schedule check of ShouldBlock (engine.go:97-102)
scheduleBlocks ==
    /\ cfg.Schedule.Enabled
    /\ ~isInAllowedTime
    /\ Len(cfg.Schedule.Rules) > 0
    /\ cfg.Schedule.Rules[1].StrictMode

\* the parents of a name, as the loop of ShouldBlock forms them
\* (engine.go:118-120): parts[i:] joined, for i = 1..len(parts)-1
Parents(domain) ==
    LET parts == Split(domain, ".") IN
    { Join(SubSeq(parts, i, Len(parts)), ".") : i \in 2..Len(parts) }

\* the lookups with the parent loop testing the remote set only
lookupBlocked_ParentsRemoteOnly(domain) ==
    \/ domain \in customBlocked
    \/ domain \in blockedDomains
    \/ \E parent \in Parents(domain) : parent \in blockedDomains

\* the lookups of ShouldBlock made under e.mu.RLock (engine.go:104-126)
lookupBlocked(domain) ==
    \/ domain \in customBlocked
    \/ domain \in blockedDomains
    \/ \E parent \in Parents(domain) :
          parent \in blockedDomains \/ parent \in customBlocked

\* ShouldBlock with the schedule check made before the whitelist check
ShouldBlock_ScheduleFirst(domain) ==
    LET d == normalizeDomain(domain) IN
    IF d = <<>> THEN FALSE
    ELSE IF scheduleBlocks THEN TRUE
    ELSE IF isWhitelisted(d) THEN FALSE
    ELSE lookupBlocked(d)

\* Engine.ShouldBlock (engine.go:84-127), called with no concurrent writer
ShouldBlock(domain) ==
    LET d == normalizeDomain(domain) IN
    IF d = <<>> THEN FALSE
    ELSE IF isWhitelisted(d) THEN FALSE
    ELSE IF scheduleBlocks THEN TRUE
    ELSE lookupBlocked(d)

\* Engine.AddToWhitelist (engine.go:353-359)
AddToWhitelist(domain) ==
    /\ mu = 0
    /\ whitelist' = whitelist \cup {normalizeDomain(domain)}
    /\ UNCHANGED <<blockedDomains, customBlocked>>

\* Engine.RemoveFromWhitelist (engine.go:361-367)
RemoveFromWhitelist(domain) ==
    /\ mu = 0
    /\ whitelist' = whitelist \ {normalizeDomain(domain)}
    /\ UNCHANGED <<blockedDomains, customBlocked>>

\* AddToCustomBlocklist as a switch: a domain that is present is removed
AddToCustomBlocklist_Toggle(domain) ==
    /\ mu = 0
    /\ customBlocked' = IF normalizeDomain(domain) \in customBlocked
                        THEN customBlocked \ {normalizeDomain(domain)}
                        ELSE customBlocked \cup {normalizeDomain(domain)}
    /\ UNCHANGED <<blockedDomains, whitelist>>

\* Engine.AddToCustomBlocklist (engine.go:382-388)
AddToCustomBlocklist(domain) ==
    /\ mu = 0
    /\ customBlocked' = customBlocked \cup {normalizeDomain(domain)}
    /\ UNCHANGED <<blockedDomains, whitelist>>

\* Engine.RemoveFromCustomBlocklist (engine.go:390-396)
RemoveFromCustomBlocklist(domain) ==
    /\ mu = 0
    /\ customBlocked' = customBlocked \ {normalizeDomain(domain)}
    /\ UNCHANGED <<blockedDomains, whitelist>>

-----------------------------------------------------------------------------
(* dns.Msg, reduced to the fields the server reads and writes.  origin     *)
(* records where a message was built: "local" by new(dns.Msg) in the       *)
(* handler, "upstream" by the resolver that client.Exchange asked.         *)

TypeA    == <<"A">>
TypeAAAA == <<"A", "A", "A", "A">>
RcodeSuccess       == 0
RcodeServerFailure == 2
RcodeNameError     == 3

\* new(dns.Msg) (server.go:99)
NewMsg ==
    [Id |-> 0, Response |-> FALSE, Authoritative |-> FALSE,
     Rcode |-> RcodeSuccess, Question |-> <<>>, Answer |-> <<>>,
     origin |-> "local"]

\* dns.Msg.SetReply: the request's Id, qr = 1, rcode 0, and the request's
\* first question when it has one
SetReply(m, r) ==
    [m EXCEPT !.Id = r.Id,
              !.Response = TRUE,
              !.Rcode = RcodeSuccess,
              !.Question = IF Len(r.Question) > 0 THEN <<r.Question[1]>> ELSE @]

\* dns.Msg.SetRcode: SetReply, then the rcode
SetRcode(m, r, rcode) == [SetReply(m, r) EXCEPT !.Rcode = rcode]

\* the A record handleBlockedDomain appends (server.go:162-171, 177-186)
RedirectRR(r, ip) ==
    [Name |-> r.Question[1].Name, Rrtype |-> TypeA, Ttl |-> 300, A |-> ip]

\* the replies a resolver may give to request r: the request's Id and
\* question echoed, any of the rcodes and answer counts below
UpstreamReplies(r) ==
    { [Id |-> r.Id, Response |-> TRUE, Authoritative |-> FALSE,
       Rcode |-> rc, Question |-> r.Question, Answer |-> ans,
       origin |-> "upstream"] :
        rc \in {RcodeSuccess, RcodeNameError},
        ans \in { <<>>,
                  <<[Name |-> r.Question[1].Name, Rrtype |-> r.Question[1].Qtype,
                     Ttl |-> 60, A |-> "192.0.2.1"]>> } }

-----------------------------------------------------------------------------
(* dns.DNSCache (database.go:674-785).  Every method holds c.mu for its    *)
(* whole body, so each is one step.                                        *)

\* bounds of the cache model
MaxTime == 2
CacheTTL == 1
CacheSize == 2

\* DNSCache.makeKey (database.go:749-751)
makeKey(domain, qtype) == domain \o <<":">> \o qtype

\* DNSCache.Get (database.go:699-717): the entry, when present and not
\* older than ttl
CacheHit(key) == key \in DOMAIN entries /\ ~(now - entries[key].timestamp > CacheTTL)

\* evictOldest deleting whichever entry the range visits first
evictOldest_Any(es) ==
    IF DOMAIN es = {} THEN {es}
    ELSE { [k \in (DOMAIN es) \ {oldestKey} |-> es[k]] : oldestKey \in DOMAIN es }

\* DNSCache.evictOldest (database.go:753-769): the maps that may result; the
\* range over the map visits the entries in any order, and the first one
\* visited among those with the earliest timestamp is deleted
evictOldest(es) ==
    IF DOMAIN es = {} THEN {es}
    ELSE { [k \in (DOMAIN es) \ {oldestKey} |-> es[k]] :
             oldestKey \in { k \in DOMAIN es :
                               \A k2 \in DOMAIN es : es[k].timestamp <= es[k2].timestamp } }

\* DNSCache.Set (database.go:719-733): the maps that may result
CacheSet(key, response) ==
    LET kept == IF Cardinality(DOMAIN entries) >= maxSize
                THEN evictOldest(entries) ELSE {entries}
        e == [response |-> response, timestamp |-> now, seq |-> setCount + 1]
    IN  { [k \in (DOMAIN es) \cup {key} |-> IF k = key THEN e ELSE es[k]] : es \in kept }

\* DNSCache.Clear with only the expired entries removed
CacheClear_ExpiredOnly ==
    [k \in {k2 \in DOMAIN entries : ~(now - entries[k2].timestamp > CacheTTL)} |-> entries[k]]

\* DNSCache.Clear (database.go:735-740): a new empty map
CacheClear == [k \in {} |-> 0]

\* DNSCache.Size (database.go:742-747)
Size == Cardinality(DOMAIN entries)

\* a sweep that also deletes the entries whose age equals ttl
CacheSweep_AtTTL ==
    [k \in {k2 \in DOMAIN entries : ~(now - entries[k2].timestamp >= CacheTTL)} |-> entries[k]]

\* one sweep of DNSCache.cleanup (database.go:771-785)
CacheSweep ==
    [k \in {k2 \in DOMAIN entries : ~(now - entries[k2].timestamp > CacheTTL)} |-> entries[k]]

\* NewDNSCache (database.go:686-697)
CacheInit ==
    /\ entries = [k \in {} |-> 0]
    /\ now = 0
    /\ setCount = 0
    /\ clearedAt = 0
    /\ maxSize = CacheSize

NoGet == [made |-> FALSE]

NoCall == [made |-> FALSE]

\* the cache variables the filter-only specification leaves alone
CacheIdle == CacheInit /\ got = NoGet

-----------------------------------------------------------------------------
(* dns.Server (server.go) and the UpstreamPool it forwards through.  A     *)
(* handler is one call of handleDNSRequest; it advances one step per       *)
(* access to shared state (statistics, cache, filter, pool, database), and *)
(* what it does on its own between two such accesses belongs to the step.  *)

\* bound of the server model: the number of queries received
MaxQueries == 2

\* the server hands every received message to a task of its own; handler w
\* is the task of the w-th message received
Handlers == 1..MaxQueries

\* getClientIP (server.go:241-249): the peer address of the datagram
ClientIP(w) == IF w % 2 = 1 THEN "10.0.0.1" ELSE "10.0.0.2"

\* 2^16: a uint32 is two halves of this size
Half == 65536

\* the upstream servers of the configuration (part_005:14-23)
Servers == <<"8.8.8.8:53", "1.1.1.1:53">>

\* the questions a client may ask
Questions ==
    { <<>>,
      <<[Name |-> N_abdot,  Qtype |-> TypeA]>>,
      <<[Name |-> N_ABdot,  Qtype |-> TypeA]>>,
      <<[Name |-> N_abdot,  Qtype |-> TypeAAAA]>>,
      <<[Name |-> N_wabdot, Qtype |-> TypeA]>> }

\* the requests a client may send as the n-th query the server receives: no
\* question or one question, under a transaction ID of its own
Requests(n) == [Id : {n}, Question : Questions]

IdleHandler ==
    [pc |-> "idle", r |-> [Id |-> 0, Question |-> <<>>], cached |-> NewMsg,
     q |-> 0, path |-> "none", upstreamCalls |-> 0, cacheSets |-> 0,
     afterPolicy |-> FALSE]

\* the reply message handleDNSRequest prepares (server.go:98-101)
ReplyTemplate(r) == [SetReply(NewMsg, r) EXCEPT !.Authoritative = TRUE]

\* the cache hit answered with the stored message as it is
HitReply_AsStored(cachedResponse, r) == cachedResponse

\* the reply on a cache hit (server.go:126)
HitReply(cachedResponse, r) == SetReply(cachedResponse, r)

\* the blocked answer with the rcode left at NOERROR under nxdomain
BlockedReply_NoRcode(r) == ReplyTemplate(r)

\* the blocked answer with the A record appended whatever the query type
BlockedReply_AnyType(r) ==
    LET m == ReplyTemplate(r) IN
    CASE cfg.BlockAction = "nxdomain" -> SetRcode(m, r, RcodeNameError)
      [] cfg.BlockAction = "redirect" ->
            [m EXCEPT !.Answer = Append(@, RedirectRR(r, cfg.RedirectIP))]
      [] cfg.BlockAction = "block_page" ->
            [m EXCEPT !.Answer = Append(@, RedirectRR(r, "127.0.0.1"))]
      [] OTHER -> m

\* the message handleBlockedDomain writes (server.go:153-190)
BlockedReply(r) ==
    LET m == ReplyTemplate(r) IN
    CASE cfg.BlockAction = "nxdomain" -> SetRcode(m, r, RcodeNameError)
      [] cfg.BlockAction = "redirect" ->
            IF Len(r.Question) > 0 /\ r.Question[1].Qtype = TypeA
            THEN [m EXCEPT !.Answer = Append(@, RedirectRR(r, cfg.RedirectIP))]
            ELSE m
      [] cfg.BlockAction = "block_page" ->
            IF Len(r.Question) > 0 /\ r.Question[1].Qtype = TypeA
            THEN [m EXCEPT !.Answer = Append(@, RedirectRR(r, "127.0.0.1"))]
            ELSE m
      [] OTHER -> m

\* every upstream reply is cached
Cacheable_Always(response) == TRUE

\* the condition under which forwardToUpstream caches (server.go:212)
Cacheable(response) ==
    response.Rcode = RcodeSuccess /\ Len(response.Answer) > 0

\* atomic.AddUint32(&p.index, 1) (part_005:39).  The uint32 is kept as its
\* two 16-bit halves, so that it wraps from 2^32 - 1 to 0
AddUint32One(i) ==
    IF i.lo = Half - 1
    THEN [hi |-> (i.hi + 1) % Half, lo |-> 0]
    ELSE [hi |-> i.hi, lo |-> i.lo + 1]

\* idx % uint32(n) (part_005:40)
ModUint32(i, n) == ((i.hi % n) * (Half % n) + i.lo) % n

\* UpstreamPool.Get (part_005:26-41): the index after the call
PoolGet ==
    IF Len(Servers) = 0 \/ Len(Servers) = 1 THEN index
    ELSE AddUint32One(index)

\* UpstreamPool.Get (part_005:26-41): the server returned
PoolServer ==
    IF Len(Servers) = 0 THEN "8.8.8.8:53"
    ELSE IF Len(Servers) = 1 THEN Servers[1]
    ELSE Servers[ModUint32(AddUint32One(index), Len(Servers)) + 1]

\* no CLI command under way
IdleCli == [pc |-> "idle", d |-> <<>>]

\* no admin operation made yet
NoOp == [op |-> "none", by |-> "none", done |-> TRUE, seq |-> 0]

\* no operation made yet
NoLast == [op |-> "none", arg |-> <<>>, again |-> FALSE]

\* the record of an operation; again says that the operation before it was
\* the same call with the same argument
Did(op, arg) == [op |-> op, arg |-> arg, again |-> last.op = op /\ last.arg = arg]

\* the tasks that call GetStats (the API's statistics handler)
StatsReaders == {"s1"}

IdleStats == [pc |-> "idle", total |-> 0, blocked |-> 0, cached |-> 0, at |-> <<>>]

IdleIngest == [did |-> {}, http |-> <<>>, file |-> <<>>]

\* no blocklist body fetched, no mutex taken
LateIdle ==
    /\ body = <<>>
    /\ ing = IdleIngest
    /\ lk = <<>>
    /\ tk = <<>>

\* no custom file, no GetStats call and no tracked ShouldBlock call
RestIdle ==
    /\ LateIdle
    /\ files = <<>>
    /\ apiCustom = {}
    /\ fetches = 0
    /\ last = NoLast
    /\ could = <<>>
    /\ gs = [t \in StatsReaders |-> IdleStats]

\* the YAML file, the CLI, the admin API and the message objects where no
\* specification uses them
CliIdle ==
    /\ yaml = {}
    /\ cli = IdleCli
    /\ unblocked = {}
    /\ fromSources = {}
    /\ adm = NoOp
    /\ heap = <<>>
    /\ held = <<>>
    /\ RestIdle

\* the tasks that call UpstreamPool.Get on the pool on its own
Getters == {"g1", "g2"}

IdleGetter == [pc |-> "idle", idx |-> [hi |-> 0, lo |-> 0], slot |-> 0]

\* NewServer (server.go:36-66), NewUpstreamPool (part_005:14-23)
ServerInit ==
    /\ stats = [TotalQueries |-> 0, BlockedQueries |-> 0, CachedResponses |-> 0]
    /\ h = [w \in Handlers |-> IdleHandler]
    /\ replies = [w \in Handlers |-> <<>>]
    /\ blockLog = <<>>
    /\ index = [hi |-> 0, lo |-> 0]
    /\ pendingClear = {}
    /\ enforced = {}
    /\ servers = Servers
    /\ picks = <<>>
    /\ getters = [g \in Getters |-> IdleGetter]
    /\ CliIdle

\* the server variables the other specifications leave alone
ServerIdle == ServerInit

\* s.stats.mu with the counters written while a GetStats call reads them
StatsLock_NoRLock == TRUE

\* s.stats.mu.Lock (server.go:94, 122, 143): a writer gets the mutex when no
\* GetStats call holds it for reading (server.go:87-88)
StatsLock == \A t \in StatsReaders : gs[t].pc \in {"idle", "ret"}

Name(w) == h[w].r.Question[1].Name
Qtype(w) == h[w].r.Question[1].Qtype

\* handleDNSRequest without the return at line 109: a message without a
\* question is answered and then forwarded like any other
Receive_NoEarlyReturn(w) ==
    /\ h[w].pc = "idle"
    /\ \A v \in 1..(w - 1) : h[v].pc # "idle"
    /\ StatsLock
    /\ \E r \in Requests(w) :
          /\ stats' = [stats EXCEPT !.TotalQueries = @ + 1]
          /\ IF Len(r.Question) = 0
             THEN /\ h' = [h EXCEPT ![w] = [IdleHandler EXCEPT
                              !.pc = "forward", !.r = r, !.path = "empty", !.q = w]]
                  /\ replies' = [replies EXCEPT ![w] = <<ReplyTemplate(r)>>]
             ELSE /\ h' = [h EXCEPT ![w] = [IdleHandler EXCEPT
                              !.pc = "cache", !.r = r,
                              !.q = w,
                              !.afterPolicy =
                                  normalizeDomain(r.Question[1].Name) \in enforced]]
                  /\ replies' = [replies EXCEPT ![w] = <<>>]
    /\ UNCHANGED <<updVars, ingestVars, lockVars, restVars, admVars, cliVars, poolVars, filterVars, call, cacheVars, got, blockLog, index,
                   pendingClear, enforced>>

\* handleDNSRequest, lines 92-110: count the query; a message without a
\* question is answered at once
Receive(w) ==
    /\ h[w].pc = "idle"
    /\ \A v \in 1..(w - 1) : h[v].pc # "idle"
    /\ StatsLock
    /\ \E r \in Requests(w) :
          /\ stats' = [stats EXCEPT !.TotalQueries = @ + 1]
          /\ IF Len(r.Question) = 0
             THEN /\ h' = [h EXCEPT ![w] = [IdleHandler EXCEPT
                              !.pc = "done", !.r = r, !.path = "empty", !.q = w]]
                  /\ replies' = [replies EXCEPT ![w] = <<ReplyTemplate(r)>>]
             ELSE /\ h' = [h EXCEPT ![w] = [IdleHandler EXCEPT
                              !.pc = "cache", !.r = r,
                              !.q = w,
                              !.afterPolicy =
                                  normalizeDomain(r.Question[1].Name) \in enforced]]
                  /\ replies' = [replies EXCEPT ![w] = <<>>]
    /\ UNCHANGED <<updVars, ingestVars, lockVars, restVars, admVars, cliVars, poolVars, filterVars, call, cacheVars, got, blockLog, index,
                   pendingClear, enforced>>

\* the filter consulted whatever the configuration says
FilterConsulted_Always == TRUE

\* handleDNSRequest, line 132: s.cfg.Filtering.Enabled && ...
FilterConsulted == cfg.FilteringEnabled

\* handleDNSRequest, line 121: s.cache.Get
CheckCache(w) ==
    /\ h[w].pc = "cache"
    /\ LET key == makeKey(Name(w), Qtype(w)) IN
       IF CacheHit(key)
       THEN h' = [h EXCEPT ![w].pc = "hit", ![w].cached = entries[key].response]
       ELSE h' = [h EXCEPT ![w].pc =
                      IF FilterConsulted THEN "filter" ELSE "forward"]
    /\ UNCHANGED <<updVars, ingestVars, lockVars, restVars, admVars, cliVars, poolVars, filterVars, call, cacheVars, got, stats, replies, blockLog,
                   index, pendingClear, enforced>>

\* the cache hit answered only after an upstream exchange of its own
Hit_Refetch(w) ==
    /\ h[w].pc = "hit"
    /\ StatsLock
    /\ stats' = [stats EXCEPT !.CachedResponses = @ + 1]
    /\ index' = PoolGet
    /\ replies' = [replies EXCEPT ![w] = Append(@, HitReply(h[w].cached, h[w].r))]
    /\ h' = [h EXCEPT ![w].pc = "done", ![w].path = "hit", ![w].upstreamCalls = @ + 1]
    /\ UNCHANGED <<updVars, ingestVars, lockVars, restVars, admVars, cliVars, poolVars, filterVars, call, cacheVars, got, blockLog,
                   pendingClear, enforced>>

\* handleDNSRequest, lines 122-128: the cache hit
Hit(w) ==
    /\ h[w].pc = "hit"
    /\ StatsLock
    /\ stats' = [stats EXCEPT !.CachedResponses = @ + 1]
    /\ replies' = [replies EXCEPT ![w] = Append(@, HitReply(h[w].cached, h[w].r))]
    /\ h' = [h EXCEPT ![w].pc = "done", ![w].path = "hit"]
    /\ UNCHANGED <<updVars, ingestVars, lockVars, restVars, admVars, cliVars, poolVars, filterVars, call, cacheVars, got, blockLog, index,
                   pendingClear, enforced>>

\* ShouldBlock, lines 85-95: normalize, the empty name, isWhitelisted (the
\* first e.mu.RLock section)
FilterWhitelist(w) ==
    /\ h[w].pc = "filter"
    /\ LET d == normalizeDomain(Name(w)) IN
       h' = [h EXCEPT ![w].pc =
                IF d = <<>> \/ isWhitelisted(d) THEN "forward" ELSE "lookup"]
    /\ UNCHANGED <<updVars, ingestVars, lockVars, restVars, admVars, cliVars, poolVars, filterVars, call, cacheVars, got, stats, replies, blockLog,
                   index, pendingClear, enforced>>

\* ShouldBlock, lines 97-126: the schedule check and the lookups (the second
\* e.mu.RLock section)
FilterLookup(w) ==
    /\ h[w].pc = "lookup"
    /\ h' = [h EXCEPT ![w].pc =
                IF scheduleBlocks \/ lookupBlocked(normalizeDomain(Name(w)))
                THEN "blocked" ELSE "forward"]
    /\ UNCHANGED <<updVars, ingestVars, lockVars, restVars, admVars, cliVars, poolVars, filterVars, call, cacheVars, got, stats, replies, blockLog,
                   index, pendingClear, enforced>>

\* handleBlockedDomain, lines 142-145: count the blocked query
CountBlocked(w) ==
    /\ h[w].pc = "blocked"
    /\ StatsLock
    /\ stats' = [stats EXCEPT !.BlockedQueries = @ + 1]
    /\ h' = [h EXCEPT ![w].pc = "logblock"]
    /\ UNCHANGED <<updVars, ingestVars, lockVars, restVars, admVars, cliVars, poolVars, filterVars, call, cacheVars, got, replies, blockLog, index,
                   pendingClear, enforced>>

\* handleBlockedDomain, lines 147-190: the block event and the blocked answer
LogAndAnswerBlocked(w) ==
    /\ h[w].pc = "logblock"
    /\ blockLog' = Append(blockLog,
                      [domain |-> Name(w), clientIP |-> ClientIP(w),
                       timestamp |-> now, q |-> h[w].q])
    /\ replies' = [replies EXCEPT ![w] = Append(@, BlockedReply(h[w].r))]
    /\ h' = [h EXCEPT ![w].pc = "done", ![w].path = "blocked"]
    /\ UNCHANGED <<updVars, ingestVars, lockVars, restVars, admVars, cliVars, poolVars, filterVars, call, cacheVars, got, stats, index,
                   pendingClear, enforced>>

\* forwardToUpstream, lines 194-203: pick the upstream and send the query
Forward(w) ==
    /\ h[w].pc = "forward"
    /\ index' = PoolGet
    /\ h' = [h EXCEPT ![w].pc = "waiting", ![w].upstreamCalls = @ + 1]
    /\ UNCHANGED <<updVars, ingestVars, lockVars, restVars, admVars, cliVars, poolVars, filterVars, call, cacheVars, got, stats, replies, blockLog,
                   pendingClear, enforced>>

\* the failed exchange with the SERVFAIL message stored in the cache
UpstreamError_CachesFailure(w) ==
    /\ h[w].pc = "waiting"
    /\ replies' = [replies EXCEPT ![w] =
                      Append(@, SetRcode(ReplyTemplate(h[w].r), h[w].r, RcodeServerFailure))]
    /\ entries' \in CacheSet(makeKey(Name(w), Qtype(w)),
                             SetRcode(ReplyTemplate(h[w].r), h[w].r, RcodeServerFailure))
    /\ h' = [h EXCEPT ![w].pc = "done", ![w].path = "servfail", ![w].cacheSets = @ + 1]
    /\ UNCHANGED <<updVars, ingestVars, lockVars, restVars, admVars, cliVars, poolVars, filterVars, call, now, setCount, clearedAt, got, stats,
                   blockLog, index, pendingClear, enforced, maxSize>>

\* forwardToUpstream, lines 204-209: the exchange failed
UpstreamError(w) ==
    /\ h[w].pc = "waiting"
    /\ replies' = [replies EXCEPT ![w] =
                      Append(@, SetRcode(ReplyTemplate(h[w].r), h[w].r, RcodeServerFailure))]
    /\ h' = [h EXCEPT ![w].pc = "done", ![w].path = "servfail"]
    /\ UNCHANGED <<updVars, ingestVars, lockVars, restVars, admVars, cliVars, poolVars, filterVars, call, cacheVars, got, stats, blockLog, index,
                   pendingClear, enforced>>

\* forwardToUpstream, lines 211-217: the exchange returned a response
UpstreamAnswer(w) ==
    /\ h[w].pc = "waiting"
    /\ \E response \in UpstreamReplies(h[w].r) :
          /\ IF Cacheable(response)
             THEN /\ entries' \in CacheSet(makeKey(Name(w), Qtype(w)), response)
                  /\ setCount' = setCount + 1
                  /\ h' = [h EXCEPT ![w].pc = "done", ![w].path = "upstream",
                                    ![w].cacheSets = @ + 1]
             ELSE /\ UNCHANGED <<entries, setCount>>
                  /\ h' = [h EXCEPT ![w].pc = "done", ![w].path = "upstream"]
          /\ replies' = [replies EXCEPT ![w] = Append(@, response)]
    /\ UNCHANGED <<updVars, ingestVars, lockVars, restVars, admVars, cliVars, poolVars, filterVars, call, now, clearedAt, got, stats, blockLog, index,
                   pendingClear, enforced, maxSize>>

\* ClearCache with the statistics reset as well
ClearCache_ResetStats ==
    /\ entries' = CacheClear
    /\ clearedAt' = setCount
    /\ enforced' = enforced \cup pendingClear
    /\ pendingClear' = {}
    /\ stats' = [TotalQueries |-> stats.TotalQueries, BlockedQueries |-> 0,
                 CachedResponses |-> 0]
    /\ UNCHANGED <<updVars, ingestVars, lockVars, restVars, admVars, cliVars, poolVars, filterVars, call, now, setCount, got, h, replies, blockLog, index, maxSize>>

\* Server.ClearCache (server.go:80-83)
ClearCache ==
    /\ entries' = CacheClear
    /\ clearedAt' = setCount
    /\ enforced' = enforced \cup pendingClear
    /\ pendingClear' = {}
    /\ UNCHANGED <<updVars, ingestVars, lockVars, restVars, admVars, cliVars, poolVars, filterVars, call, now, setCount, got, stats, h, replies,
                   blockLog, index, maxSize>>

\* the admin API adds a domain to the custom blocklist
\* (Engine.AddToCustomBlocklist, engine.go:382-388)
AdminAddCustom ==
    \E d \in {N_ab} :
       /\ AddToCustomBlocklist(d)
       /\ pendingClear' = pendingClear \cup {normalizeDomain(d)}
       /\ UNCHANGED <<updVars, ingestVars, lockVars, restVars, admVars, cliVars, poolVars, cfg, wallClock, call, cacheVars, got, stats, h, replies,
                      blockLog, index, enforced>>

\* one sweep of the cache cleaner (database.go:771-785)
Cleanup ==
    /\ entries' = CacheSweep
    /\ UNCHANGED <<updVars, ingestVars, lockVars, restVars, admVars, cliVars, poolVars, filterVars, call, now, setCount, clearedAt, got, serverVars, maxSize>>

\* time passes
Tick ==
    /\ now < MaxTime
    /\ now' = now + 1
    /\ UNCHANGED <<updVars, ingestVars, lockVars, restVars, admVars, cliVars, poolVars, filterVars, call, entries, setCount, clearedAt, got, serverVars, maxSize>>

\* the filter state and configuration the server starts with; where
\* filtering is off the schedule is a strict one whose window is open
ServerFilterInit ==
    /\ whitelist = {}
    /\ blockedDomains = {N_wab}
    /\ customBlocked = {}
    /\ \E c \in { <<TRUE, "nxdomain">>, <<TRUE, "redirect">>, <<TRUE, "block_page">>,
                  <<FALSE, "nxdomain">> } :
          cfg = [Schedule |-> IF c[1] THEN [Enabled |-> FALSE, Rules |-> <<>>]
                              ELSE [Enabled |-> TRUE,
                                    Rules |-> <<Rule({"monday"}, T0800, T1700, TRUE)>>],
                 FilteringEnabled |-> c[1], BlockAction |-> c[2],
                 RedirectIP |-> "10.9.9.9"]
    /\ wallClock = [day |-> "monday", hhmm |-> T1200]
    /\ call = NoCall

-----------------------------------------------------------------------------
(* Engine.UpdateBlocklists beside concurrent ShouldBlock calls, with       *)
(* Engine.mu explicit: mu counts the read locks held; a writer's           *)
(* Lock ... Unlock section is one step that needs mu = 0.                  *)

\* bounds: UpdateBlocklists calls in all, ShouldBlock calls in all
MaxUpdates == 2
MaxCalls == 2

\* the tasks that may run UpdateBlocklists: the admin API's goroutine and
\* the auto-updater (docs/QUICKSTART.md:511-519, engine.go:417-427)
Updaters == {"api", "auto"}

\* the tasks that call ShouldBlock
Readers == {"q1"}

\* cfg.Blocklists.Sources with what each source's body parses to
Sources ==
    << [Enabled |-> TRUE,  domains |-> {N_b}],
       [Enabled |-> FALSE, domains |-> {N_ab}],
       [Enabled |-> TRUE,  domains |-> {N_xab}] >>

\* the enabled domains of the custom YAML files (loadCustomYAMLBlocklists)
CustomYAML == {N_wab}

\* what one load of the custom YAML files may deliver: the enabled domains,
\* or nothing when the glob matches no file or no file can be read or parsed
\* (engine.go:230-246)
CustomLoads == {CustomYAML, {}}

IdleUpdater ==
    [pc |-> "idle", k |-> 1, newBlocked |-> {}, no |-> 0, produced |-> FALSE,
     missed |-> FALSE, saveFailed |-> FALSE]

IdleReader ==
    [pc |-> "idle", d |-> <<>>, parents |-> {}, seen |-> {}, minNo |-> 0,
     result |-> FALSE, calls |-> 0, locked |-> FALSE, custom |-> {}]

\* no update and no concurrent reader under way
UpdInit ==
    /\ mu = 0
    /\ u = [i \in Updaters |-> IdleUpdater]
    /\ rd = [r \in Readers |-> IdleReader]
    /\ swapNo = 0
    /\ returnedNo = 0
    /\ complete = {blockedDomains}
    /\ dbBlocklist = blockedDomains

\* the same, for the specifications that run no update
UpdIdle == UpdInit

\* UpdateBlocklists, lines 178-181: a call starts with an empty newBlocked
UStart(i) ==
    /\ u[i].pc = "idle"
    /\ Cardinality({j \in Updaters : u[j].pc # "idle"}) + swapNo < MaxUpdates
    /\ u' = [u EXCEPT ![i] = [IdleUpdater EXCEPT !.pc = "fetch",
                                                 !.saveFailed = u[i].saveFailed]]
    /\ UNCHANGED <<filterVars, call, cacheVars, got, serverVars, ingestVars, lockVars, restVars, admVars, cliVars, poolVars,
                   mu, rd, swapNo, returnedNo, complete, dbBlocklist>>

\* the fetched domains added to the live set instead of the local one
FetchInto_InPlace(i, domains) ==
    /\ u' = [u EXCEPT ![i].newBlocked = @ \cup domains, ![i].k = @ + 1,
                      ![i].produced = TRUE]
    /\ blockedDomains' = u[i].newBlocked \cup domains

\* UpdateBlocklists, lines 196-198: the fetched domains go into newBlocked
FetchInto(i, domains) ==
    /\ u' = [u EXCEPT ![i].newBlocked = @ \cup domains, ![i].k = @ + 1,
                      ![i].produced = TRUE]
    /\ UNCHANGED blockedDomains

\* UpdateBlocklists, lines 183-202: one turn of the loop over the sources;
\* a disabled source is passed over, a fetch fails or delivers
UFetch(i) ==
    /\ u[i].pc = "fetch"
    /\ u[i].k <= Len(Sources)
    /\ \/ /\ ~Sources[u[i].k].Enabled
          /\ u' = [u EXCEPT ![i].k = @ + 1]
          /\ UNCHANGED blockedDomains
       \/ /\ Sources[u[i].k].Enabled
          /\ u' = [u EXCEPT ![i].k = @ + 1, ![i].missed = TRUE]
          /\ UNCHANGED blockedDomains
       \/ /\ Sources[u[i].k].Enabled
          /\ FetchInto(i, Sources[u[i].k].domains)
    /\ UNCHANGED <<customBlocked, whitelist, cfg, wallClock, call, cacheVars, got,
                   serverVars, ingestVars, lockVars, restVars, admVars, cliVars, poolVars, mu, rd, swapNo, returnedNo, complete, dbBlocklist>>

\* UpdateBlocklists, lines 204-211: the custom YAML domains are merged and
\* the build is finished
UCustom(i) ==
    /\ u[i].pc = "fetch"
    /\ u[i].k > Len(Sources)
    /\ \E customDomains \in CustomLoads :
          /\ u' = [u EXCEPT ![i].newBlocked = @ \cup customDomains, ![i].pc = "swap",
                            ![i].produced = @ \/ customDomains # {}]
          /\ complete' = complete \cup {u[i].newBlocked \cup customDomains}
    /\ UNCHANGED <<filterVars, call, cacheVars, got, serverVars, ingestVars, lockVars, restVars, admVars, cliVars, poolVars,
                   mu, rd, swapNo, returnedNo, dbBlocklist>>

\* UpdateBlocklists, lines 213-215: the replacement, under e.mu.Lock
USwap(i) ==
    /\ u[i].pc = "swap"
    /\ mu = 0
    /\ blockedDomains' = u[i].newBlocked
    /\ swapNo' = swapNo + 1
    /\ u' = [u EXCEPT ![i].pc = "save", ![i].no = swapNo + 1]
    /\ UNCHANGED <<customBlocked, whitelist, cfg, wallClock, call, cacheVars, got,
                   serverVars, ingestVars, lockVars, restVars, admVars, cliVars, poolVars, mu, rd, returnedNo, complete, dbBlocklist>>

\* UpdateBlocklists, lines 217-222: SaveBlocklist succeeds or fails (the
\* error is logged), and the call returns; saveFailed keeps, for the task,
\* that a SaveBlocklist call of its has failed
USaveReturn(i) ==
    /\ u[i].pc = "save"
    /\ \/ /\ dbBlocklist' = u[i].newBlocked
          /\ u' = [u EXCEPT ![i].pc = "idle"]
       \/ /\ UNCHANGED dbBlocklist
          /\ u' = [u EXCEPT ![i].pc = "idle", ![i].saveFailed = TRUE]
    /\ returnedNo' = IF u[i].no > returnedNo THEN u[i].no ELSE returnedNo
    /\ UNCHANGED <<filterVars, call, cacheVars, got, serverVars, ingestVars, lockVars, restVars, admVars, cliVars, poolVars,
                   mu, rd, swapNo, complete>>

\* what a ShouldBlock call has seen of the remote set: the set, with the
\* number of the replacement that installed it
Observed == <<swapNo, blockedDomains>>

\* ShouldBlock, lines 85-90: a call starts; the empty name returns false
RCall(r) ==
    /\ rd[r].pc \in {"idle", "ret"}
    /\ rd[r].calls < MaxCalls
    /\ \E n \in {N_abdot, N_wabdot, N_dot} :
          LET d == normalizeDomain(n) IN
          rd' = [rd EXCEPT ![r] =
                    [IdleReader EXCEPT !.pc = IF d = <<>> THEN "ret" ELSE "wl",
                                       !.d = d, !.minNo = returnedNo,
                                       !.calls = rd[r].calls + 1]]
    /\ UNCHANGED <<filterVars, call, cacheVars, got, serverVars, ingestVars, lockVars, restVars, admVars, cliVars, poolVars,
                   mu, u, swapNo, returnedNo, complete, dbBlocklist>>

\* ShouldBlock, lines 92-95: isWhitelisted, with its own RLock ... RUnlock
\* inside (engine.go:130-131); the lock is free again when it returns
RWhitelist(r) ==
    /\ rd[r].pc = "wl"
    /\ IF isWhitelisted(rd[r].d)
       THEN rd' = [rd EXCEPT ![r].pc = "ret", ![r].result = FALSE]
       ELSE rd' = [rd EXCEPT ![r].pc = "sched"]
    /\ UNCHANGED <<filterVars, call, cacheVars, got, serverVars, ingestVars, lockVars, restVars, admVars, cliVars, poolVars,
                   mu, u, swapNo, returnedNo, complete, dbBlocklist>>

\* ShouldBlock, lines 97-105: the schedule check, then e.mu.RLock for the
\* lookups
RLock(r) ==
    /\ rd[r].pc = "sched"
    /\ IF scheduleBlocks
       THEN rd' = [rd EXCEPT ![r].pc = "ret", ![r].result = TRUE] /\ UNCHANGED mu
       ELSE /\ rd' = [rd EXCEPT ![r].pc = "custom", ![r].locked = TRUE,
                                ![r].custom = customBlocked]
            /\ mu' = mu + 1
    /\ UNCHANGED <<filterVars, call, cacheVars, got, serverVars, ingestVars, lockVars, restVars, admVars, cliVars, poolVars,
                   u, swapNo, returnedNo, complete, dbBlocklist>>

\* ShouldBlock, lines 107-110: the custom set is asked for the name
RCustom(r) ==
    /\ rd[r].pc = "custom"
    /\ IF rd[r].d \in customBlocked
       THEN rd' = [rd EXCEPT ![r].pc = "ret", ![r].result = TRUE] /\ mu' = mu - 1
       ELSE rd' = [rd EXCEPT ![r].pc = "direct"] /\ UNCHANGED mu
    /\ UNCHANGED <<filterVars, call, cacheVars, got, serverVars, ingestVars, lockVars, restVars, admVars, cliVars, poolVars,
                   u, swapNo, returnedNo, complete, dbBlocklist>>

\* ShouldBlock, lines 112-118: the remote set is asked for the name
RDirect(r) ==
    /\ rd[r].pc = "direct"
    /\ IF rd[r].d \in blockedDomains
       THEN /\ rd' = [rd EXCEPT ![r].pc = "ret", ![r].result = TRUE,
                                ![r].seen = @ \cup {Observed}]
            /\ mu' = mu - 1
       ELSE /\ rd' = [rd EXCEPT ![r].pc = "parents", ![r].seen = @ \cup {Observed},
                                ![r].parents = Parents(rd[r].d)]
            /\ UNCHANGED mu
    /\ UNCHANGED <<filterVars, call, cacheVars, got, serverVars, ingestVars, lockVars, restVars, admVars, cliVars, poolVars,
                   u, swapNo, returnedNo, complete, dbBlocklist>>

\* ShouldBlock, lines 119-126: one turn of the loop over the parents, or its
\* end; the deferred RUnlock runs at the return
RParent(r) ==
    /\ rd[r].pc = "parents"
    /\ IF rd[r].parents = {}
       THEN /\ rd' = [rd EXCEPT ![r].pc = "ret", ![r].result = FALSE]
            /\ mu' = mu - 1
       ELSE LET parent == CHOOSE p \in rd[r].parents :
                             \A p2 \in rd[r].parents : Len(p) >= Len(p2)
            IN  IF parent \in blockedDomains \/ parent \in customBlocked
                THEN /\ rd' = [rd EXCEPT ![r].pc = "ret", ![r].result = TRUE,
                                         ![r].seen = @ \cup {Observed}]
                     /\ mu' = mu - 1
                ELSE /\ rd' = [rd EXCEPT ![r].parents = @ \ {parent},
                                         ![r].seen = @ \cup {Observed}]
                     /\ UNCHANGED mu
    /\ UNCHANGED <<filterVars, call, cacheVars, got, serverVars, ingestVars, lockVars, restVars, admVars, cliVars, poolVars,
                   u, swapNo, returnedNo, complete, dbBlocklist>>

\* the admin API adds a domain to the custom set while updates and queries
\* run (Engine.AddToCustomBlocklist, engine.go:382-388)
UAddCustom ==
    /\ \E d \in {N_ab} : d \notin customBlocked /\ AddToCustomBlocklist(d)
    /\ UNCHANGED <<cfg, wallClock, call, cacheVars, got, serverVars, ingestVars, lockVars, restVars, admVars, cliVars, poolVars,
                   mu, u, rd, swapNo, returnedNo, complete, dbBlocklist>>

\* ReloadCustomBlocklists that also rebuilds the remote set, as
\* UpdateBlocklists does, from the enabled sources and the loaded domains
ReloadCustomBlocklists_Rebuild(customDomains) ==
    /\ mu = 0
    /\ customBlocked' = customBlocked \cup customDomains
    /\ blockedDomains' = customDomains \cup
           UNION { Sources[k].domains : k \in {j \in 1..Len(Sources) : Sources[j].Enabled} }
    /\ UNCHANGED whitelist

\* Engine.ReloadCustomBlocklists (engine.go:266-278): the loaded domains are
\* added to the custom set
ReloadCustomBlocklists(customDomains) ==
    /\ mu = 0
    /\ customBlocked' = customBlocked \cup customDomains
    /\ UNCHANGED <<blockedDomains, whitelist>>

\* the admin API reloads the custom YAML files
UReloadCustom ==
    /\ \E customDomains \in CustomLoads :
          /\ ~(customDomains \subseteq customBlocked)
          /\ ReloadCustomBlocklists(customDomains)
    /\ UNCHANGED <<cfg, wallClock, call, cacheVars, got, serverVars, ingestVars, lockVars, restVars, admVars, cliVars, poolVars,
                   mu, u, rd, swapNo, returnedNo, complete, dbBlocklist>>

\* Engine.GetBlockedCount (engine.go:411-415)
GetBlockedCount == Cardinality(blockedDomains) + Cardinality(customBlocked)

\* filter.New with a stored blocklist, no schedule, an empty whitelist
UpdateSpecInit ==
    /\ whitelist = {}
    /\ blockedDomains = {N_ab}
    /\ customBlocked = {}
    /\ cfg = [Schedule |-> [Enabled |-> FALSE, Rules |-> <<>>],
              FilteringEnabled |-> TRUE, BlockAction |-> "nxdomain",
              RedirectIP |-> "10.9.9.9"]
    /\ wallClock = [day |-> "monday", hhmm |-> T1200]
    /\ call = NoCall
    /\ CacheIdle
    /\ ServerIdle
    /\ UpdInit

UpdateNext ==
    \/ \E i \in Updaters : UStart(i)
    \/ \E i \in Updaters : UFetch(i)
    \/ \E i \in Updaters : UCustom(i)
    \/ \E i \in Updaters : USwap(i)
    \/ \E i \in Updaters : USaveReturn(i)
    \/ \E r \in Readers : RCall(r)
    \/ \E r \in Readers : RWhitelist(r)
    \/ \E r \in Readers : RLock(r)
    \/ \E r \in Readers : RCustom(r)
    \/ \E r \in Readers : RDirect(r)
    \/ \E r \in Readers : RParent(r)
    \/ UAddCustom
    \/ UReloadCustom

SpecUpdate == UpdateSpecInit /\ [][UpdateNext]_vars

-----------------------------------------------------------------------------
(* The upstream pool on its own: concurrent Get calls on a fixed pool.     *)

\* bound: Get calls in all
MaxGets == 6

\* the pools NewUpstreamPool may be given (part_005:14-23)
Pools ==
    { <<"8.8.8.8:53">>,
      <<"8.8.8.8:53", "1.1.1.1:53">>,
      <<"8.8.8.8:53", "1.1.1.1:53", "9.9.9.9:53">> }

\* values of the index at which the calls observed begin: each Get on a pool
\* of two or more adds 1, so every uint32 value is reached in time
StartIndexes ==
    { [hi |-> 0, lo |-> 0],
      [hi |-> 0, lo |-> 7],
      [hi |-> Half - 1, lo |-> Half - 3],
      [hi |-> Half - 1, lo |-> Half - 1] }

\* the pool after any number of earlier Get calls; everything else at rest
PoolSpecInit ==
    /\ servers \in Pools
    /\ index \in (IF Len(servers) = 1 THEN {[hi |-> 0, lo |-> 0]} ELSE StartIndexes)
    /\ picks = <<>>
    /\ getters = [g \in Getters |-> IdleGetter]
    /\ CliIdle
    /\ stats = [TotalQueries |-> 0, BlockedQueries |-> 0, CachedResponses |-> 0]
    /\ h = [w \in Handlers |-> IdleHandler]
    /\ replies = [w \in Handlers |-> <<>>]
    /\ blockLog = <<>>
    /\ pendingClear = {}
    /\ enforced = {}
    /\ whitelist = {}
    /\ blockedDomains = {N_ab}
    /\ customBlocked = {}
    /\ cfg = [Schedule |-> [Enabled |-> FALSE, Rules |-> <<>>],
              FilteringEnabled |-> TRUE, BlockAction |-> "nxdomain",
              RedirectIP |-> "10.9.9.9"]
    /\ wallClock = [day |-> "monday", hhmm |-> T1200]
    /\ call = NoCall
    /\ CacheIdle
    /\ UpdInit

\* UpstreamPool.Get, lines 27-39: a pool of one server returns it at once; a
\* larger pool adds 1 to the index.  The call takes its place in the order
\* of the calls here
PGet(g) ==
    /\ getters[g].pc = "idle"
    /\ Len(picks) < MaxGets
    /\ IF Len(servers) = 1
       THEN /\ picks' = Append(picks, servers[1])
            /\ UNCHANGED <<index, getters>>
       ELSE /\ index' = AddUint32One(index)
            /\ picks' = Append(picks, "pending")
            /\ getters' = [getters EXCEPT ![g] =
                              [pc |-> "ret", idx |-> AddUint32One(index),
                               slot |-> Len(picks) + 1]]
    /\ UNCHANGED <<servers, filterVars, call, cacheVars, got, stats, h, replies,
                   blockLog, pendingClear, enforced, updVars, ingestVars, lockVars, restVars, admVars, cliVars>>

\* UpstreamPool.Get, line 40: the server at idx modulo the pool size
PReturn(g) ==
    /\ getters[g].pc = "ret"
    /\ picks' = [picks EXCEPT ![getters[g].slot] =
                    servers[ModUint32(getters[g].idx, Len(servers)) + 1]]
    /\ getters' = [getters EXCEPT ![g] = IdleGetter]
    /\ UNCHANGED <<servers, index, filterVars, call, cacheVars, got, stats, h,
                   replies, blockLog, pendingClear, enforced, updVars, ingestVars, lockVars, restVars, admVars, cliVars>>

PoolNext ==
    \/ \E g \in Getters : PGet(g)
    \/ \E g \in Getters : PReturn(g)

SpecPool == PoolSpecInit /\ [][PoolNext]_vars

-----------------------------------------------------------------------------
(* The server: query handlers, the admin API's AddCustom and ClearCache,   *)
(* the cache cleaner and the clock.                                        *)

Init == ServerFilterInit /\ CacheInit /\ got = NoGet /\ ServerInit /\ UpdIdle

Next ==
    \/ \E w \in Handlers : Receive(w)
    \/ \E w \in Handlers : CheckCache(w)
    \/ \E w \in Handlers : Hit(w)
    \/ \E w \in Handlers : FilterWhitelist(w)
    \/ \E w \in Handlers : FilterLookup(w)
    \/ \E w \in Handlers : CountBlocked(w)
    \/ \E w \in Handlers : LogAndAnswerBlocked(w)
    \/ \E w \in Handlers : Forward(w)
    \/ \E w \in Handlers : UpstreamError(w)
    \/ \E w \in Handlers : UpstreamAnswer(w)
    \/ AdminAddCustom
    \/ ClearCache
    \/ Cleanup
    \/ Tick

Spec == Init /\ [][Next]_vars

-----------------------------------------------------------------------------
(* The cache on its own: Set, Get, Clear, the cleaner and the clock, in    *)
(* any order.                                                              *)

\* bound: the number of Set calls
MaxSets == 4

\* the keys of the cache model
CacheKeys ==
    { makeKey(N_abdot, TypeA), makeKey(N_abdot, TypeAAAA), makeKey(N_wabdot, TypeA) }

\* a response the server would cache
SomeResponse ==
    [Id |-> 1, Response |-> TRUE, Authoritative |-> FALSE, Rcode |-> RcodeSuccess,
     Question |-> <<>>, Answer |-> <<"rr">>, origin |-> "upstream"]

\* DNSCache.Set (database.go:719-733)
CSet ==
    /\ setCount < MaxSets
    /\ \E key \in CacheKeys : entries' \in CacheSet(key, SomeResponse)
    /\ setCount' = setCount + 1
    /\ UNCHANGED <<updVars, ingestVars, lockVars, restVars, admVars, cliVars, poolVars, filterVars, call, now, clearedAt, got, serverVars, maxSize>>

\* DNSCache.Get (database.go:699-717); the call records what it returned
\* and the last Clear that had returned before it
CGet ==
    /\ \E key \in CacheKeys :
          got' = [made |-> TRUE, key |-> key, hit |-> CacheHit(key),
                  seq |-> IF CacheHit(key) THEN entries[key].seq ELSE 0,
                  clearedAt |-> clearedAt]
    /\ UNCHANGED <<updVars, ingestVars, lockVars, restVars, admVars, cliVars, poolVars, filterVars, call, cacheVars, serverVars>>

CacheNext ==
    \/ CSet
    \/ CGet
    \/ ClearCache
    \/ Cleanup
    \/ Tick

\* the cache as NewDNSCache leaves it, beside an idle server
CacheSpecInit ==
    /\ ServerFilterInit /\ cfg.FilteringEnabled /\ cfg.BlockAction = "nxdomain"
    /\ CacheInit /\ got = NoGet /\ ServerInit /\ UpdIdle

SpecCache == CacheSpecInit /\ [][CacheNext]_vars

-----------------------------------------------------------------------------
(* The filter engine on its own: the admin mutators, the wall clock and    *)
(* sequential calls of ShouldBlock.                                        *)

\* filter.New (engine.go:46-82): the whitelist from the configuration, the
\* remote set from the database, an empty custom set
FilterInit ==
    /\ \E seed \in SUBSET {N_ab, P_ab} :
          whitelist = {normalizeDomain(w) : w \in seed}
    /\ blockedDomains \in StoredBlocklists
    /\ customBlocked = {}
    /\ \E s \in Schedules :
          cfg = [Schedule |-> s, FilteringEnabled |-> TRUE, BlockAction |-> "nxdomain",
                 RedirectIP |-> "10.9.9.9"]
    /\ wallClock \in WallClocks
    /\ call = NoCall
    /\ CacheIdle
    /\ ServerIdle
    /\ UpdIdle

FAddWhitelist ==
    \E d \in WhitelistInputs : AddToWhitelist(d) /\ call' = NoCall
                                /\ UNCHANGED <<cacheVars, got, serverVars, updVars, ingestVars, lockVars, restVars, admVars, cliVars, poolVars>>
                                /\ UNCHANGED <<cfg, wallClock>>

FRemoveWhitelist ==
    \E d \in WhitelistInputs : RemoveFromWhitelist(d) /\ call' = NoCall
                                /\ UNCHANGED <<cacheVars, got, serverVars, updVars, ingestVars, lockVars, restVars, admVars, cliVars, poolVars>>
                                /\ UNCHANGED <<cfg, wallClock>>

FAddCustom ==
    \E d \in CustomInputs : AddToCustomBlocklist(d) /\ call' = NoCall
                                /\ UNCHANGED <<cacheVars, got, serverVars, updVars, ingestVars, lockVars, restVars, admVars, cliVars, poolVars>>
                             /\ UNCHANGED <<cfg, wallClock>>

FRemoveCustom ==
    \E d \in CustomInputs : RemoveFromCustomBlocklist(d) /\ call' = NoCall
                                /\ UNCHANGED <<cacheVars, got, serverVars, updVars, ingestVars, lockVars, restVars, admVars, cliVars, poolVars>>
                             /\ UNCHANGED <<cfg, wallClock>>

\* the wall clock moves to another instant
FTick ==
    /\ wallClock' \in WallClocks \ {wallClock}
    /\ call' = NoCall
    /\ UNCHANGED <<blockedDomains, customBlocked, whitelist, cfg>>
    /\ UNCHANGED <<cacheVars, got, serverVars, updVars, ingestVars, lockVars, restVars, admVars, cliVars, poolVars>>

\* one call of ShouldBlock with no concurrent writer
FShouldBlock ==
    \E n \in QueryNames :
       /\ call' = [made |-> TRUE, domain |-> n, result |-> ShouldBlock(n)]
       /\ UNCHANGED <<filterVars, cacheVars, got, serverVars, updVars, ingestVars, lockVars, restVars, admVars, cliVars, poolVars>>

FilterNext ==
    \/ FAddWhitelist
    \/ FRemoveWhitelist
    \/ FAddCustom
    \/ FRemoveCustom
    \/ FTick
    \/ FShouldBlock

SpecFilter == FilterInit /\ [][FilterNext]_vars

-----------------------------------------------------------------------------
(* The CLI's block and unblock commands (dns-cli.sh) beside blocklist      *)
(* updates.  A command edits the YAML file and then calls the admin API;   *)
(* its steps are the shell script's.                                       *)

\* the domains the operator blocks and unblocks
CliDomains == {N_ab, N_wab}

\* what the enabled remote sources may deliver to one update: each fetch
\* succeeds or fails (engine.go:190-198)
SourceDeliveries ==
    { UNION { Sources[k].domains : k \in K } :
         K \in SUBSET {j \in 1..Len(Sources) : Sources[j].Enabled} }

\* Server.ClearCache as the last call of an admin handler
ClearedCache ==
    /\ entries' = CacheClear
    /\ clearedAt' = setCount
    /\ UNCHANGED <<now, setCount, maxSize>>

\* cmd_block, dns-cli.sh:70-107: the entry is added to the YAML file, or
\* set to enabled: true
CliBlockYaml ==
    /\ cli.pc = "idle"
    /\ \E d \in CliDomains :
          /\ yaml' = yaml \cup {d}
          /\ unblocked' = unblocked \ {d}
          /\ cli' = [pc |-> "reload", d |-> d]
    /\ UNCHANGED <<filterVars, call, cacheVars, got, serverVars, updVars, ingestVars, lockVars, restVars, admVars, poolVars,
                   fromSources>>

\* cmd_block, dns-cli.sh:109-116: POST /blocklist/reload-custom, handled by
\* reloadCustomBlocklists (docs/QUICKSTART.md:567-583)
CliBlockReload ==
    /\ cli.pc = "reload"
    /\ ReloadCustomBlocklists(yaml)
    /\ ClearedCache
    /\ cli' = IdleCli
    /\ UNCHANGED <<cfg, wallClock, call, got, serverVars, updVars, ingestVars, lockVars, restVars, admVars, poolVars,
                   yaml, unblocked, fromSources, maxSize>>

\* cmd_unblock, dns-cli.sh:120-146: the entry is set to enabled: false
CliUnblockYaml ==
    /\ cli.pc = "idle"
    /\ \E d \in CliDomains :
          /\ yaml' = yaml \ {d}
          /\ cli' = [pc |-> "remove", d |-> d]
    /\ UNCHANGED <<filterVars, call, cacheVars, got, serverVars, updVars, ingestVars, lockVars, restVars, admVars, poolVars,
                   unblocked, fromSources>>

\* cmd_unblock, dns-cli.sh:149: DELETE /custom-blocklist/<domain>, handled
\* by removeFromCustomBlocklist (docs/QUICKSTART.md:562-565)
CliUnblockRemove ==
    /\ cli.pc = "remove"
    /\ RemoveFromCustomBlocklist(cli.d)
    /\ cli' = [cli EXCEPT !.pc = "clear"]
    /\ UNCHANGED <<cfg, wallClock, call, cacheVars, got, serverVars, updVars, ingestVars, lockVars, restVars, admVars,
                   poolVars, yaml, unblocked, fromSources>>

\* cmd_unblock, dns-cli.sh:150-152: POST /system/clear-cache; the command
\* is complete
CliUnblockClear ==
    /\ cli.pc = "clear"
    /\ ClearedCache
    /\ unblocked' = unblocked \cup {cli.d}
    /\ cli' = IdleCli
    /\ UNCHANGED <<filterVars, call, got, serverVars, updVars, ingestVars, lockVars, restVars, admVars, poolVars,
                   yaml, fromSources, maxSize>>

\* Engine.UpdateBlocklists (engine.go:177-223), run by the admin API or the
\* auto-updater between the CLI's steps: what the sources deliver, with the
\* enabled YAML entries merged, replaces the remote set
CliUpdate ==
    /\ \E delivered \in SourceDeliveries :
          /\ blockedDomains' = delivered \cup yaml
          /\ fromSources' = delivered
    /\ UNCHANGED <<customBlocked, whitelist, cfg, wallClock, call, cacheVars, got,
                   serverVars, updVars, ingestVars, lockVars, restVars, admVars, poolVars, yaml, cli, unblocked>>

\* a query reaches the filter: Engine.ShouldBlock
CliQuery ==
    /\ \E n \in {N_abdot, N_wabdot} :
          call' = [made |-> TRUE, domain |-> n, result |-> ShouldBlock(n)]
    /\ UNCHANGED <<filterVars, cacheVars, got, serverVars, updVars, ingestVars, lockVars, restVars, admVars, poolVars, cliVars>>

\* filter.New on an empty database: the first update has run
CliSpecInit ==
    /\ whitelist = {}
    /\ \E delivered \in SourceDeliveries :
          /\ blockedDomains = delivered
          /\ fromSources = delivered
    /\ customBlocked = {}
    /\ yaml = {}
    /\ cli = IdleCli
    /\ unblocked = {}
    /\ adm = NoOp
    /\ heap = <<>>
    /\ held = <<>>
    /\ RestIdle
    /\ cfg = [Schedule |-> [Enabled |-> FALSE, Rules |-> <<>>],
              FilteringEnabled |-> TRUE, BlockAction |-> "nxdomain",
              RedirectIP |-> "10.9.9.9"]
    /\ wallClock = [day |-> "monday", hhmm |-> T1200]
    /\ call = NoCall
    /\ CacheIdle
    /\ stats = [TotalQueries |-> 0, BlockedQueries |-> 0, CachedResponses |-> 0]
    /\ h = [w \in Handlers |-> IdleHandler]
    /\ replies = [w \in Handlers |-> <<>>]
    /\ blockLog = <<>>
    /\ index = [hi |-> 0, lo |-> 0]
    /\ pendingClear = {}
    /\ enforced = {}
    /\ servers = Servers
    /\ picks = <<>>
    /\ getters = [g \in Getters |-> IdleGetter]
    /\ mu = 0
    /\ u = [i \in Updaters |-> IdleUpdater]
    /\ rd = [r \in Readers |-> IdleReader]
    /\ swapNo = 0
    /\ returnedNo = 0
    /\ complete = {blockedDomains}
    /\ dbBlocklist = blockedDomains

CliNext ==
    \/ CliBlockYaml
    \/ CliBlockReload
    \/ CliUnblockYaml
    \/ CliUnblockRemove
    \/ CliUnblockClear
    \/ CliUpdate
    \/ CliQuery

SpecCli == CliSpecInit /\ [][CliNext]_vars

-----------------------------------------------------------------------------
(* The admin plane: the handlers of the admin API and the auto-updater,    *)
(* beside queries that fill the cache.  An operation is complete when its  *)
(* handler (for an update, its goroutine) has made its last call.          *)

\* the domains the admin API is given
AdminDomains == {N_ab}

\* the record of an operation: completed or not, numbered modulo 2
Op(name, by, done) == [op |-> name, by |-> by, done |-> done, seq |-> 1 - adm.seq]

\* addToWhitelist (docs/QUICKSTART.md:494-504)
AdmAddWhitelist ==
    /\ adm.done
    /\ \E d \in AdminDomains : AddToWhitelist(d)
    /\ adm' = Op("addToWhitelist", "api", TRUE)
    /\ UNCHANGED <<cfg, wallClock, call, cacheVars, got, serverVars, updVars, ingestVars, lockVars, restVars, poolVars,
                   cliVars, heap, held>>

\* removeFromWhitelist (docs/QUICKSTART.md:506-509)
AdmRemoveWhitelist ==
    /\ adm.done
    /\ \E d \in AdminDomains : RemoveFromWhitelist(d)
    /\ adm' = Op("removeFromWhitelist", "api", TRUE)
    /\ UNCHANGED <<cfg, wallClock, call, cacheVars, got, serverVars, updVars, ingestVars, lockVars, restVars, poolVars,
                   cliVars, heap, held>>

\* addToCustomBlocklist (docs/QUICKSTART.md:550-560)
AdmAddCustom ==
    /\ adm.done
    /\ \E d \in AdminDomains : AddToCustomBlocklist(d)
    /\ adm' = Op("addToCustomBlocklist", "api", TRUE)
    /\ UNCHANGED <<cfg, wallClock, call, cacheVars, got, serverVars, updVars, ingestVars, lockVars, restVars, poolVars,
                   cliVars, heap, held>>

\* removeFromCustomBlocklist (docs/QUICKSTART.md:562-565)
AdmRemoveCustom ==
    /\ adm.done
    /\ \E d \in AdminDomains : RemoveFromCustomBlocklist(d)
    /\ adm' = Op("removeFromCustomBlocklist", "api", TRUE)
    /\ UNCHANGED <<cfg, wallClock, call, cacheVars, got, serverVars, updVars, ingestVars, lockVars, restVars, poolVars,
                   cliVars, heap, held>>

\* reloadCustomBlocklists (docs/QUICKSTART.md:567-583): ReloadCustomBlocklists,
\* then ClearCache
AdmReloadCustom ==
    /\ adm.done
    /\ \E customDomains \in CustomLoads : ReloadCustomBlocklists(customDomains)
    /\ ClearedCache
    /\ adm' = Op("reloadCustomBlocklists", "api", TRUE)
    /\ UNCHANGED <<cfg, wallClock, call, got, serverVars, updVars, ingestVars, lockVars, restVars, poolVars,
                   cliVars, heap, held, maxSize>>

\* Engine.UpdateBlocklists run by updateBlocklists' goroutine
\* (docs/QUICKSTART.md:511-519), which has ClearCache still to call, or by
\* StartAutoUpdate (engine.go:417-427), which is done with it
AdmUpdate ==
    /\ adm.done
    /\ \E delivered \in SourceDeliveries : \E customDomains \in CustomLoads :
          blockedDomains' = delivered \cup customDomains
    /\ \E by \in {"api", "auto"} : adm' = Op("updateBlocklists", by, by = "auto")
    /\ UNCHANGED <<customBlocked, whitelist, cfg, wallClock, call, cacheVars, got,
                   serverVars, updVars, ingestVars, lockVars, restVars, poolVars, cliVars, heap, held>>

\* updateBlocklists' goroutine, docs/QUICKSTART.md:514-516: ClearCache after
\* the update
AdmUpdateClear ==
    /\ ~adm.done
    /\ ClearedCache
    /\ adm' = [adm EXCEPT !.done = TRUE]
    /\ UNCHANGED <<filterVars, call, got, serverVars, updVars, ingestVars, lockVars, restVars, poolVars,
                   cliVars, heap, held, maxSize>>

\* the server and the engine at startup
AdminSpecInit ==
    /\ ServerFilterInit /\ cfg.FilteringEnabled /\ cfg.BlockAction = "nxdomain"
    /\ CacheInit /\ got = NoGet /\ ServerInit /\ UpdIdle

AdminNext ==
    \/ AdmAddWhitelist
    \/ AdmRemoveWhitelist
    \/ AdmAddCustom
    \/ AdmRemoveCustom
    \/ AdmReloadCustom
    \/ AdmUpdate
    \/ AdmUpdateClear
    \/ CSet

SpecAdmin == AdminSpecInit /\ [][AdminNext]_vars

-----------------------------------------------------------------------------
(* The cache and the dns.Msg objects: heap holds the content of every      *)
(* message allocated, and a *dns.Msg is the number of its object.  The     *)
(* cache's entries hold objects; callers hold the objects they made or     *)
(* were returned.                                                          *)

\* bound: messages allocated in all
MaxObjects == 4

\* the content of a message: its transaction ID and its answers
Contents == [Id : {1, 2}, Answer : {<<"rr">>}]

\* the object delivered when the copy is the message itself
CopyMsg_SameObject(obj) == obj

\* dns.Msg.Copy (database.go:716, 729): the object delivered, a new one
CopyMsg(obj) == Len(heap) + 1

\* the heap after a copy of obj was delivered as object new
HeapWith(obj, new) == IF new > Len(heap) THEN Append(heap, heap[obj]) ELSE heap

\* a caller makes a message: the upstream's response (server.go:203)
ANew ==
    /\ Len(heap) < MaxObjects
    /\ \E c \in Contents : heap' = Append(heap, c)
    /\ held' = Append(held, Len(heap) + 1)
    /\ UNCHANGED <<filterVars, call, cacheVars, got, serverVars, updVars, ingestVars, lockVars, restVars, poolVars,
                   cliVars, adm>>

\* DNSCache.Set (database.go:719-733) with a message the caller holds; the
\* entry remembers the content it was given
ASet ==
    /\ Len(heap) < MaxObjects
    /\ setCount < MaxSets
    /\ \E i \in 1..Len(held) : \E key \in CacheKeys :
          LET new == CopyMsg(held[i]) IN
          /\ heap' = HeapWith(held[i], new)
          /\ entries' \in CacheSet(key, [obj |-> new, stored |-> heap[held[i]]])
    /\ setCount' = setCount + 1
    /\ UNCHANGED <<filterVars, call, now, clearedAt, got, serverVars, updVars, ingestVars, lockVars, restVars,
                   poolVars, cliVars, adm, held, maxSize>>

\* DNSCache.Get (database.go:699-717): on a hit the caller is handed a
\* message, and the call records what it held
AGet ==
    /\ Len(heap) < MaxObjects
    /\ \E key \in CacheKeys :
          /\ CacheHit(key)
          /\ LET new == CopyMsg(entries[key].response.obj) IN
             /\ heap' = HeapWith(entries[key].response.obj, new)
             /\ held' = Append(held, new)
             /\ got' = [made |-> TRUE, key |-> key, hit |-> TRUE, obj |-> new,
                        returned |-> heap[entries[key].response.obj],
                        stored |-> entries[key].response.stored]
    /\ UNCHANGED <<filterVars, call, cacheVars, serverVars, updVars, ingestVars, lockVars, restVars, poolVars,
                   cliVars, adm>>

\* a caller changes a message it holds: SetReply on a cache hit substitutes
\* the transaction ID (server.go:126)
AMutate ==
    /\ \E i \in 1..Len(held) : \E id \in {1, 2} \ {heap[held[i]].Id} :
          heap' = [heap EXCEPT ![held[i]].Id = id]
    /\ UNCHANGED <<filterVars, call, cacheVars, got, serverVars, updVars, ingestVars, lockVars, restVars, poolVars,
                   cliVars, adm, held>>

\* NewDNSCache, and no message allocated yet
CopySpecInit ==
    /\ ServerFilterInit /\ cfg.FilteringEnabled /\ cfg.BlockAction = "nxdomain"
    /\ CacheInit /\ got = NoGet /\ ServerInit /\ UpdIdle

CopyNext ==
    \/ ANew
    \/ ASet
    \/ AGet
    \/ AMutate

SpecCopy == CopySpecInit /\ [][CopyNext]_vars

-----------------------------------------------------------------------------
(* Properties of the decision function, stated on the last completed call. *)

\* the name the last call decided, in normalized form (lowercase, no
\* surrounding blanks, one trailing dot stripped)
CallName == normalizeDomain(call.domain)

\* n is on the whitelist: literally, or by an entry "*.SUFFIX" with n ending
\* in SUFFIX
OnWhitelist(n) ==
    \/ n \in whitelist
    \/ \E w \in whitelist :
          /\ Len(w) >= 2 /\ w[1] = "*" /\ w[2] = "."
          /\ HasSuffix(n, SubSeq(w, 3, Len(w)))

\* some suffix l_i ... l_(k-1) of n's label list, i = 0..k-1, is in
\* custom \cup remote
SomeSuffixListed(n) ==
    LET labels == Split(n, ".") IN
    \E i \in 1..Len(labels) :
       Join(SubSeq(labels, i, Len(labels)), ".") \in customBlocked \cup blockedDomains

\* the current instant lies in the window of some schedule rule
InSomeWindow ==
    \E i \in 1..Len(cfg.Schedule.Rules) :
       LET r == cfg.Schedule.Rules[i] IN
       /\ wallClock.day \in r.Days
       /\ StrLeq(r.StartTime, wallClock.hhmm)
       /\ StrLeq(wallClock.hhmm, r.EndTime)

\* the strict short-circuit as ShouldBlock takes it: schedule enabled, inside
\* some rule's window, and the first rule of the list strict
StrictShortCircuit ==
    /\ cfg.Schedule.Enabled
    /\ InSomeWindow
    /\ cfg.Schedule.Rules[1].StrictMode

\* C1: whitelist always wins. Whatever remote, custom and the schedule hold,
\* a name whose normalized form is on the whitelist (literally or by a
\* "*.SUFFIX" entry) is never blocked.
C1_WhitelistWins ==
    (call.made /\ OnWhitelist(CallName)) => call.result = FALSE

\* C1 witness: a name whitelisted by a wildcard only, with a blocked parent
\* and the strict schedule window active, was decided and not blocked.
C1_Witness ==
    /\ call.made
    /\ CallName \notin whitelist
    /\ OnWhitelist(CallName)
    /\ SomeSuffixListed(CallName)
    /\ StrictShortCircuit
    /\ call.result = FALSE

C3_Scenario ==
    /\ call.made
    /\ blockedDomains \cup customBlocked = {N_ab}
    /\ whitelist = {P_ab}

-----------------------------------------------------------------------------
(* Properties of the query pipeline (specification Spec).                  *)

Done(w) == h[w].pc = "done"
TheReply(w) == replies[w][1]

\* handler w's query was decided to be blocked (after a cache miss)
BlockDecided(w) == h[w].pc \in {"blocked", "logblock"} \/ h[w].path = "blocked"

\* the block events of handler w's query
EventsOf(w) == { i \in 1..Len(blockLog) : blockLog[i].q = w }

\* C4: with filtering enabled and d not whitelisted, a query for d received
\* after AddCustom(d) and then ClearCache() have returned is answered with a
\* block response, whatever queries for d were in flight meanwhile.
C4_PolicyTakesEffect ==
    \A w \in Handlers :
       ( /\ Done(w)
         /\ h[w].afterPolicy
         /\ cfg.FilteringEnabled
         /\ ~OnWhitelist(normalizeDomain(Name(w))) )
       => h[w].path = "blocked"

\* C5: every received query gets exactly one reply, on every path, and the
\* reply carries the query's transaction ID and question.
C5_OneReply ==
    \A w \in Handlers :
       /\ ~Done(w) => replies[w] = <<>>
       /\ Done(w) =>
            /\ Len(replies[w]) = 1
            /\ TheReply(w).Id = h[w].r.Id
            /\ TheReply(w).Question = h[w].r.Question

\* C5 witness: a query answered from the cache, where the stored message
\* carried another query's transaction ID.
C5_Witness ==
    \E w \in Handlers :
       /\ Done(w) /\ h[w].path = "hit"
       /\ h[w].cached.Id # h[w].r.Id
       /\ TheReply(w).Id = h[w].r.Id

\* C6: every cache entry is an upstream reply with rcode NOERROR and at
\* least one answer.
C6_CacheHoldsUpstreamSuccess ==
    \A key \in DOMAIN entries :
       /\ entries[key].response.origin = "upstream"
       /\ entries[key].response.Rcode = RcodeSuccess
       /\ Len(entries[key].response.Answer) >= 1

\* C6 witness: the cache holds an entry while another query got an upstream
\* reply that was not stored.
C6_Witness ==
    /\ DOMAIN entries # {}
    /\ \E w \in Handlers :
          /\ Done(w) /\ h[w].path = "upstream" /\ h[w].cacheSets = 0
          /\ makeKey(Name(w), Qtype(w)) \notin DOMAIN entries

\* C9: the counters total, blocked and cached never decrease, whatever
\* queries and admin operations take the step.
C9_CountersMonotone ==
    [][ /\ stats'.TotalQueries >= stats.TotalQueries
        /\ stats'.BlockedQueries >= stats.BlockedQueries
        /\ stats'.CachedResponses >= stats.CachedResponses ]_vars

\* C9 witness: a query was served from the cache, and after it a policy
\* change and a ClearCache took place, with the counters still standing.
C9_Witness ==
    /\ stats.TotalQueries = MaxQueries
    /\ stats.CachedResponses >= 1
    /\ enforced # {}
    /\ DOMAIN entries = {}

\* C10: a query that misses the cache and is decided to be blocked makes no
\* upstream call and no cache write, adds exactly 1 to stats.blocked, emits
\* exactly one block event (name, client, timestamp), and under nxdomain is
\* answered with rcode 3, no answers and the query's transaction ID.
C10_BlockPath ==
    /\ \A w \in Handlers :
          BlockDecided(w) =>
             /\ h[w].upstreamCalls = 0
             /\ h[w].cacheSets = 0
             /\ cfg.FilteringEnabled
    /\ \A w \in Handlers :
          h[w].path = "blocked" =>
             /\ Cardinality(EventsOf(w)) = 1
             /\ \A i \in EventsOf(w) :
                   /\ blockLog[i].domain = Name(w)
                   /\ blockLog[i].clientIP = ClientIP(w)
                   /\ blockLog[i].timestamp <= now
             /\ cfg.BlockAction = "nxdomain" =>
                   /\ TheReply(w).Rcode = RcodeNameError
                   /\ TheReply(w).Answer = <<>>
                   /\ TheReply(w).Id = h[w].r.Id
    /\ \A w \in Handlers : ~BlockDecided(w) => EventsOf(w) = {}
    /\ stats.BlockedQueries =
          Cardinality({ w \in Handlers : h[w].pc = "logblock" \/ h[w].path = "blocked" })

\* C10 witness: under nxdomain, two queries were blocked and answered.
C10_Witness ==
    /\ cfg.BlockAction = "nxdomain"
    /\ stats.BlockedQueries = 2
    /\ \A w \in {1, 2} : Done(w) /\ h[w].path = "blocked"

-----------------------------------------------------------------------------
(* Properties of the cache (specification SpecCache).                      *)

\* C8: after Clear has returned, no Get returns an entry inserted before
\* that Clear, and the cache is empty (Size() = 0) until the next Set.
C8_ClearEmpties ==
    /\ got.made /\ got.hit => got.seq > got.clearedAt
    /\ \A key \in DOMAIN entries : entries[key].seq > clearedAt
    /\ setCount = clearedAt => Size = 0

\* C8 witness: entries were stored, Clear returned, a later Set stored an
\* entry again and a Get returned it.
C8_Witness ==
    /\ clearedAt >= 2
    /\ got.made /\ got.hit /\ got.clearedAt = clearedAt
    /\ got.seq > clearedAt

-----------------------------------------------------------------------------
(* Properties of blocklist updates (specification SpecUpdate).            *)

\* the lookups of ShouldBlock (engine.go:107-126) over given sets
lookupOver(domain, remote, custom) ==
    \/ domain \in custom
    \/ domain \in remote
    \/ \E parent \in Parents(domain) : parent \in remote \/ parent \in custom

\* the ShouldBlock calls that took the read lock
LockedReaders == {r \in Readers : rd[r].locked}

\* C7: UpdateBlocklists replaces the remote set atomically.  Every
\* ShouldBlock call, whatever updates run beside it, reads the remote set as
\* one set throughout its lookups, and that set is one a finished build
\* produced (the set at startup, or the whole newBlocked of some update with
\* the custom YAML domains merged), never a set still being built; a call
\* that starts after an update has returned reads the set that update
\* installed or one installed after it, and its result is the lookup of the
\* name in that set together with the custom set as it is during the call.
C7_AtomicReplacement ==
    \A r \in LockedReaders :
        /\ Cardinality(rd[r].seen) <= 1
        /\ \A o \in rd[r].seen : o[2] \in complete /\ o[1] >= rd[r].minNo
        /\ rd[r].pc = "ret" =>
              IF rd[r].seen = {}
              THEN rd[r].result /\ rd[r].d \in rd[r].custom
              ELSE \A o \in rd[r].seen :
                      rd[r].result <=> lookupOver(rd[r].d, o[2], rd[r].custom)

\* a call that started after one update had returned has finished its
\* lookups in the remote set while a second update is part-way through
\* building its own
C7_Witness ==
    \E r \in LockedReaders : \E i \in Updaters :
        /\ rd[r].pc = "ret"
        /\ rd[r].minNo >= 1
        /\ rd[r].seen # {}
        /\ u[i].pc = "fetch"
        /\ u[i].newBlocked # {}
        /\ u[i].newBlocked \notin complete

-----------------------------------------------------------------------------
(* Properties of the upstream error path (specification Spec).             *)

\* the cache key of handler w's query
KeyOf(w) == makeKey(Name(w), Qtype(w))

\* handler w's exchange with the upstream failed
Failed(w) == h[w].path = "servfail"

\* handler w was answered, or is about to be, from the cache
ServedFromCache(w) == h[w].pc = "hit" \/ h[w].path = "hit"

\* C11: a query whose upstream exchange fails is answered with one SERVFAIL
\* message for that query, after one upstream call and without a write to
\* the cache; so a query for the same name and type is never served from the
\* cache on account of the failure: if one is, another query's exchange
\* succeeded and stored the entry.
C11_ServfailNotCached ==
    \A w \in Handlers :
       Failed(w) =>
          /\ Len(replies[w]) = 1
          /\ TheReply(w).Rcode = RcodeServerFailure
          /\ TheReply(w).Id = h[w].r.Id
          /\ TheReply(w).Question = h[w].r.Question
          /\ TheReply(w).Answer = <<>>
          /\ h[w].upstreamCalls = 1
          /\ h[w].cacheSets = 0
          /\ \A v \in Handlers \ {w} :
                (Len(h[v].r.Question) > 0 /\ KeyOf(v) = KeyOf(w) /\ ServedFromCache(v))
                => \E x \in Handlers \ {w, v} :
                      /\ h[x].path = "upstream" /\ h[x].cacheSets = 1
                      /\ KeyOf(x) = KeyOf(w)

\* C11 witness: the first query's exchange failed, and the same query, sent
\* again after the SERVFAIL answer, went to the upstream again.
C11_Witness ==
    /\ Failed(1) /\ Done(1)
    /\ Len(h[2].r.Question) > 0 /\ KeyOf(2) = KeyOf(1)
    /\ h[2].pc = "waiting" /\ h[2].upstreamCalls = 1
    /\ DOMAIN entries = {}

-----------------------------------------------------------------------------
(* Properties of the outcome of an update (specification SpecUpdate).      *)

\* updater i's call replaces the remote set in this step
Replaces(i) == u[i].pc = "swap" /\ u'[i].pc = "save"

\* updater i's call ends in this step, after SaveBlocklist
Saves(i) == u[i].pc = "save" /\ u'[i].pc = "idle"

\* C12: UpdateBlocklists replaces the remote set and the persisted blocklist
\* only when at least one enabled source or custom YAML file produced data:
\* a call in which every source failed and no custom file delivered leaves
\* both as they were, and a call in which some source delivered installs all
\* that was delivered.
C12_ReplaceOnlyOnSuccess ==
    [][ \A i \in Updaters :
           /\ (Replaces(i) /\ ~u[i].produced) => blockedDomains' = blockedDomains
           /\ (Replaces(i) /\ u[i].produced) => blockedDomains' = u[i].newBlocked
           /\ (Saves(i) /\ ~u[i].produced) => dbBlocklist' = dbBlocklist ]_vars

\* what the enabled sources deliver when every fetch succeeds
EnabledOutputs ==
    UNION { Sources[k].domains : k \in {j \in 1..Len(Sources) : Sources[j].Enabled} }

\* updater i's call has replaced the remote set with the output of every
\* enabled source, and no later replacement has taken place
Completed(i) == u[i].pc = "save" /\ ~u[i].missed /\ swapNo = u[i].no

\* C13: after UpdateBlocklists completes, GetBlockedCount is the number of
\* distinct domains in the union of the enabled sources' outputs and the
\* custom set, a domain in both counted once.
C13_CountIsUnion ==
    \A i \in Updaters :
       Completed(i) =>
          GetBlockedCount =
             Cardinality(EnabledOutputs \cup blockedDomains \cup customBlocked)

-----------------------------------------------------------------------------
(* Properties of the upstream pool (specification SpecPool).               *)

\* how often server sv was returned by the calls a..b
TimesReturned(sv, a, b) == Cardinality({n \in a..b : picks[n] = sv})

\* the calls a..b have all returned, and their number is a multiple of the
\* pool size
FullRounds(a, b) ==
    /\ a <= b
    /\ (b - a + 1) % Len(servers) = 0
    /\ \A n \in a..b : picks[n] # "pending"

\* C14: over any N*k consecutive Get calls on a fixed pool of N servers,
\* made one after the other or concurrently, each server is returned
\* exactly k times.
C14_RoundRobinFair ==
    \A a \in 1..Len(picks) : \A b \in a..Len(picks) :
       FullRounds(a, b) =>
          \A j \in 1..Len(servers) :
             TimesReturned(servers[j], a, b) * Len(servers) = b - a + 1

-----------------------------------------------------------------------------
(* Properties of the CLI's unblock command (specification SpecCli).        *)

\* name d, or a parent of it, is listed by a remote source or by a custom
\* entry that is in force
OtherwiseListed(d) ==
    \E l \in {d} \cup Parents(d) :
       l \in fromSources \/ l \in customBlocked \/ l \in yaml

\* C15: once the unblock command for d has completed (entry disabled in the
\* YAML file, RemoveFromCustomBlocklist(d), ClearCache), and until d is
\* blocked again, d is not blocked unless a source or another entry lists d
\* or a parent of d, whatever block, reload and update operations came
\* before.
C15_UnblockTakesEffect ==
    \A d \in unblocked :
       ~OtherwiseListed(d) => ~ShouldBlock(d)

-----------------------------------------------------------------------------
(* Properties of the stored keys (specification SpecFilter).               *)

\* C16: every key held in the remote set or the custom set is in normalized
\* form (normalizing it changes nothing) and is not the empty string,
\* whatever strings were given to AddToCustomBlocklist.
C16_KeysNormalized ==
    \A k \in blockedDomains \cup customBlocked :
       /\ normalizeDomain(k) = k
       /\ k # <<>>

-----------------------------------------------------------------------------
(* Properties of the schedule (specification SpecFilter).                  *)

\* some rule whose days contain today and whose window contains the current
\* time is strict
MatchingRuleStrict ==
    \E i \in 1..Len(cfg.Schedule.Rules) :
       LET r == cfg.Schedule.Rules[i] IN
       /\ wallClock.day \in r.Days
       /\ StrLeq(r.StartTime, wallClock.hhmm)
       /\ StrLeq(wallClock.hhmm, r.EndTime)
       /\ r.StrictMode

\* C17: with the schedule enabled, ShouldBlock returns true for a non-empty,
\* non-whitelisted name on account of the schedule exactly when some rule
\* matching the current day and time is strict, whatever its position in
\* the list; otherwise the result is that of the blocklist lookup.
C17_StrictRuleDecides ==
    ( /\ call.made
      /\ cfg.Schedule.Enabled
      /\ CallName # <<>>
      /\ ~OnWhitelist(CallName) )
    => IF MatchingRuleStrict
       THEN call.result = TRUE
       ELSE call.result = SomeSuffixListed(CallName)

-----------------------------------------------------------------------------
(* Properties of the admin plane (specification SpecAdmin).                *)

\* an admin operation completes in this step
Completes == adm' # adm /\ adm'.done

\* C18: every policy change clears the cache: when an UpdateBlocklists run
\* (started by the admin API or by the auto-updater), a reload of the custom
\* blocklists, or an Add or Remove of a custom or whitelist entry through
\* the admin API completes, the operation has cleared the cache as its last
\* call.
C18_PolicyChangeClears ==
    [][ Completes => (DOMAIN entries' = {} /\ clearedAt' = setCount') ]_vars

-----------------------------------------------------------------------------
(* Properties of the cache key (specification Spec).                       *)

\* the questions with a name and a type
CacheQueries == { q[1] : q \in Questions \ {<<>>} }

\* two questions ask for the same normalized name and the same record type
SameQuery(q1, q2) ==
    normalizeDomain(q1.Name) = normalizeDomain(q2.Name) /\ q1.Qtype = q2.Qtype

\* C19: the cache key is the pair (normalized name, record type): a response
\* stored for one query and still within its TTL is found for another query
\* if and only if the two have the same normalized name (case ignored,
\* trailing dot stripped) and the same record type; no query finds a
\* response stored for another record type.
C19_KeyIsNormalizedPair ==
    \A q \in CacheQueries :
       LET key == makeKey(q.Name, q.Qtype) IN
       /\ CacheHit(key) => SameQuery(q, entries[key].response.Question[1])
       /\ \A q2 \in CacheQueries :
             (SameQuery(q, q2) /\ CacheHit(makeKey(q2.Name, q2.Qtype)))
             => /\ CacheHit(key)
                /\ entries[key].response = entries[makeKey(q2.Name, q2.Qtype)].response

-----------------------------------------------------------------------------
(* Properties of the cached messages (specification SpecCopy).             *)

\* C20: a cached response is never mutated after insertion and never
\* shared: whatever callers do to the message they passed to Set or to a
\* message Get returned, every entry keeps the content it was given, no
\* caller holds an entry's object, no two handles of callers are one object,
\* and Get returned the content stored.
C20_CachedNeverShared ==
    /\ \A key \in DOMAIN entries :
          /\ heap[entries[key].response.obj] = entries[key].response.stored
          /\ \A i \in 1..Len(held) : held[i] # entries[key].response.obj
    /\ \A i \in 1..Len(held) : \A j \in 1..Len(held) :
          i # j => held[i] # held[j]
    /\ (got.made /\ got.hit) => got.returned = got.stored

\* C20 witness: a caller changed the message it had passed to Set, another
\* changed the message Get returned to it, and the entry stands as stored.
C20_Witness ==
    /\ got.made /\ got.hit
    /\ got.key \in DOMAIN entries
    /\ heap[got.obj] # got.stored
    /\ heap[held[1]] # entries[got.key].response.stored
    /\ entries[got.key].response.stored = got.stored

-----------------------------------------------------------------------------
(* The custom YAML files (engine.go:226-262) beside the calls that change  *)
(* the custom set: ReloadCustomBlocklists, the admin API's add and remove, *)
(* and UpdateBlocklists, one call at a time.                               *)

\* bound: the number of fetchBlocklist calls
MaxFetches == 4

\* custom files: ok is false when os.ReadFile or yaml.Unmarshal fails;
\* Domains are the entries of CustomBlocklist.Domains
YF_ab ==
    [ok |-> TRUE, Domains |-> << [Domain |-> N_ab, Enabled |-> TRUE] >>]
YF_mixed ==
    [ok |-> TRUE, Domains |-> << [Domain |-> N_ABdot, Enabled |-> FALSE],
                                 [Domain |-> N_wab, Enabled |-> TRUE],
                                 [Domain |-> N_dot, Enabled |-> TRUE] >>]
YF_bad ==
    [ok |-> FALSE, Domains |-> << [Domain |-> N_b, Enabled |-> TRUE] >>]

\* what the glob may return: up to two of the files, in either order
FileLists ==
    LET F == {YF_ab, YF_mixed, YF_bad} IN
    ({<<>>} \cup { <<f>> : f \in F }) \cup { fg \in F \X F : fg[1] # fg[2] }

\* loadCustomYAMLBlocklists, lines 248-257: the domains one file contributes,
\* in the order of its entries
enabledDomains(bl) ==
    LET on == SelectSeq(bl.Domains,
                        LAMBDA entry : entry.Enabled /\ normalizeDomain(entry.Domain) # <<>>)
    IN  [i \in 1..Len(on) |-> normalizeDomain(on[i].Domain)]

\* the loop body with a file's domains replacing what earlier files gave
mergeFile_Replace(result, file) ==
    IF ~file.ok THEN result
    ELSE { enabledDomains(file)[i] : i \in 1..Len(enabledDomains(file)) }

\* loadCustomYAMLBlocklists, lines 235-258: one turn of the loop over the
\* files; a file that cannot be read or parsed is skipped
mergeFile(result, file) ==
    IF ~file.ok THEN result
    ELSE result \cup { enabledDomains(file)[i] : i \in 1..Len(enabledDomains(file)) }

RECURSIVE loadFrom(_, _, _)
loadFrom(fs, result, count) ==
    IF fs = <<>> THEN <<result, count>>
    ELSE loadFrom(Tail(fs), mergeFile(result, Head(fs)),
                  IF Head(fs).ok THEN count + Len(enabledDomains(Head(fs))) ELSE count)

\* Engine.loadCustomYAMLBlocklists (engine.go:226-262): <<result, count>>
loadCustomYAMLBlocklists(fs) ==
    IF Len(fs) = 0 THEN <<{}, 0>> ELSE loadFrom(fs, {}, 0)

\* the domains the admin API is given in this specification
ReloadInputs == {N_ab, N_ABdot, N_dot}

\* the operator edits, adds or removes custom files
LEdit ==
    /\ files' \in FileLists \ {files}
    /\ last' = Did("edit", <<>>)
    /\ UNCHANGED <<filterVars, call, cacheVars, got, serverVars, updVars, ingestVars, lockVars, admVars, cliVars,
                   poolVars, apiCustom, fetches, could, gs>>

\* Engine.ReloadCustomBlocklists (engine.go:266-278)
LReload ==
    /\ ReloadCustomBlocklists(loadCustomYAMLBlocklists(files)[1])
    /\ last' = Did("ReloadCustomBlocklists", <<>>)
    /\ UNCHANGED <<cfg, wallClock, call, cacheVars, got, serverVars, updVars, ingestVars, lockVars, admVars, cliVars,
                   poolVars, files, apiCustom, fetches, could, gs>>

\* Engine.AddToCustomBlocklist (engine.go:382-388)
LAddCustom ==
    /\ \E d \in ReloadInputs :
          /\ AddToCustomBlocklist(d)
          /\ apiCustom' = apiCustom \cup {normalizeDomain(d)}
          /\ last' = Did("AddToCustomBlocklist", d)
    /\ UNCHANGED <<cfg, wallClock, call, cacheVars, got, serverVars, updVars, ingestVars, lockVars, admVars, cliVars,
                   poolVars, files, fetches, could, gs>>

\* Engine.RemoveFromCustomBlocklist (engine.go:390-396)
LRemoveCustom ==
    /\ \E d \in ReloadInputs :
          /\ RemoveFromCustomBlocklist(d)
          /\ apiCustom' = apiCustom \ {normalizeDomain(d)}
          /\ last' = Did("RemoveFromCustomBlocklist", d)
    /\ UNCHANGED <<cfg, wallClock, call, cacheVars, got, serverVars, updVars, ingestVars, lockVars, admVars, cliVars,
                   poolVars, files, fetches, could, gs>>

\* Engine.AddToWhitelist (engine.go:353-359)
LAddWhitelist ==
    /\ \E d \in {P_ab} :
          /\ AddToWhitelist(d)
          /\ last' = Did("AddToWhitelist", d)
    /\ UNCHANGED <<cfg, wallClock, call, cacheVars, got, serverVars, updVars, ingestVars, lockVars, admVars, cliVars,
                   poolVars, files, apiCustom, fetches, could, gs>>

\* Engine.UpdateBlocklists (engine.go:177-223) with no other call beside
\* it: every enabled source is fetched, the custom files are merged, the
\* remote set is replaced and saved
LUpdate ==
    /\ LET enabled == {j \in 1..Len(Sources) : Sources[j].Enabled} IN
       /\ fetches + Cardinality(enabled) <= MaxFetches
       /\ fetches' = fetches + Cardinality(enabled)
    /\ mu = 0
    /\ \E delivered \in SourceDeliveries :
          /\ blockedDomains' = delivered \cup loadCustomYAMLBlocklists(files)[1]
          /\ dbBlocklist' = delivered \cup loadCustomYAMLBlocklists(files)[1]
    /\ last' = Did("UpdateBlocklists", <<>>)
    /\ UNCHANGED <<customBlocked, whitelist, cfg, wallClock, call, cacheVars, got, serverVars, ingestVars, lockVars,
                   admVars, cliVars, poolVars, mu, u, rd, swapNo, returnedNo, complete,
                   files, apiCustom, could, gs>>

\* filter.New with a stored blocklist, no custom file yet
ReloadSpecInit ==
    /\ whitelist = {}
    /\ blockedDomains = {N_xab}
    /\ customBlocked = {}
    /\ cfg = [Schedule |-> [Enabled |-> FALSE, Rules |-> <<>>],
              FilteringEnabled |-> TRUE, BlockAction |-> "nxdomain",
              RedirectIP |-> "10.9.9.9"]
    /\ wallClock = [day |-> "monday", hhmm |-> T1200]
    /\ call = NoCall
    /\ CacheIdle
    /\ ServerIdle
    /\ UpdIdle

ReloadNext ==
    \/ LEdit
    \/ LReload
    \/ LAddCustom
    \/ LRemoveCustom
    \/ LAddWhitelist
    \/ LUpdate

SpecReload == ReloadSpecInit /\ [][ReloadNext]_vars

-----------------------------------------------------------------------------
(* C21: only enabled entries of the custom files take part, and the custom *)
(* set is rebuilt by ReloadCustomBlocklists.                               *)

\* C21: when ReloadCustomBlocklists has returned, every domain of
\* customBlocked is either delivered by the custom files as they are now
\* (an enabled entry of a readable file) or was added through the API and
\* not removed since: no domain stays only because an entry that is now
\* disabled or gone was enabled at an earlier reload
C21_ReloadRebuildsCustom ==
    last.op = "ReloadCustomBlocklists" =>
        \A d \in customBlocked :
            d \in loadCustomYAMLBlocklists(files)[1] \/ d \in apiCustom

-----------------------------------------------------------------------------
(* C22: ReloadCustomBlocklists touches the custom set only.                *)

\* C22: a ReloadCustomBlocklists call leaves the remote set and the
\* whitelist as they were and makes no fetchBlocklist call, whatever the
\* custom files contain
C22_ReloadFrame ==
    [][ last'.op = "ReloadCustomBlocklists" =>
            /\ blockedDomains' = blockedDomains
            /\ whitelist' = whitelist
            /\ fetches' = fetches
            /\ dbBlocklist' = dbBlocklist ]_vars

\* a reload has added the files' domains to the custom set beside a remote
\* set that an update built and a whitelist entry
C22_Witness ==
    /\ last.op = "ReloadCustomBlocklists"
    /\ Len(files) = 2
    /\ N_wab \in customBlocked
    /\ N_wab \notin apiCustom
    /\ blockedDomains = {N_b}
    /\ whitelist # {}
    /\ fetches > 0

-----------------------------------------------------------------------------
(* C23: AddToCustomBlocklist is idempotent.                                *)

\* C23: an AddToCustomBlocklist(d) call that follows an
\* AddToCustomBlocklist(d) call with the same argument changes none of the
\* three sets
C23_AddCustomIdempotent ==
    [][ (last'.op = "AddToCustomBlocklist" /\ last'.again)
        => /\ customBlocked' = customBlocked
           /\ blockedDomains' = blockedDomains
           /\ whitelist' = whitelist ]_vars

\* the domain was added twice in a row under a spelling that normalization
\* changes, and the set holds the normalized name
C23_Witness ==
    /\ last = [op |-> "AddToCustomBlocklist", arg |-> N_ABdot, again |-> TRUE]
    /\ customBlocked = {N_ab, <<>>}
    /\ apiCustom = {N_ab, <<>>}

-----------------------------------------------------------------------------
(* C26: the order of the custom files does not matter.                     *)

\* the orders in which the glob could return the same files
Reorderings(fs) ==
    { [i \in 1..Len(fs) |-> fs[p[i]]] :
        p \in { q \in [1..Len(fs) -> 1..Len(fs)] :
                  \A i, j \in 1..Len(fs) : q[i] = q[j] => i = j } }

\* C26: loading the same custom files in any other order gives the same set
\* of domains, and a reload adds that set
C26_FileOrderIrrelevant ==
    /\ \A gs2 \in Reorderings(files) :
          loadCustomYAMLBlocklists(gs2)[1] = loadCustomYAMLBlocklists(files)[1]
    /\ last.op = "ReloadCustomBlocklists" =>
          \A gs2 \in Reorderings(files) :
             loadCustomYAMLBlocklists(gs2)[1] \subseteq customBlocked

\* two files that list different domains, one of them with a disabled entry
\* for a domain the other enables, have been loaded by a reload
C26_Witness ==
    /\ files = <<YF_mixed, YF_ab>>
    /\ last.op = "ReloadCustomBlocklists"
    /\ customBlocked = {N_ab, N_wab}

-----------------------------------------------------------------------------
(* Server.GetStats (server.go:86-90) beside the query handlers.  The call  *)
(* holds s.stats.mu for reading from its first line to its return; the     *)
(* three fields are read one after the other, left to right.               *)

\* GetStats, line 87: s.stats.mu.RLock; at keeps the counters of that instant
GLock(t) ==
    /\ gs[t].pc \in {"idle", "ret"}
    /\ gs' = [gs EXCEPT ![t] = [IdleStats EXCEPT !.pc = "total", !.at = stats]]
    /\ UNCHANGED <<filterVars, call, cacheVars, got, serverVars, updVars, ingestVars, lockVars, admVars, cliVars,
                   poolVars, files, apiCustom, fetches, last, could>>

\* GetStats, line 89: s.stats.TotalQueries is read
GTotal(t) ==
    /\ gs[t].pc = "total"
    /\ gs' = [gs EXCEPT ![t].pc = "blocked", ![t].total = stats.TotalQueries]
    /\ UNCHANGED <<filterVars, call, cacheVars, got, serverVars, updVars, ingestVars, lockVars, admVars, cliVars,
                   poolVars, files, apiCustom, fetches, last, could>>

\* GetStats, line 89: s.stats.BlockedQueries is read
GBlocked(t) ==
    /\ gs[t].pc = "blocked"
    /\ gs' = [gs EXCEPT ![t].pc = "cached", ![t].blocked = stats.BlockedQueries]
    /\ UNCHANGED <<filterVars, call, cacheVars, got, serverVars, updVars, ingestVars, lockVars, admVars, cliVars,
                   poolVars, files, apiCustom, fetches, last, could>>

\* GetStats, lines 88-89: s.stats.CachedResponses is read, the call returns
\* and the deferred RUnlock runs
GCached(t) ==
    /\ gs[t].pc = "cached"
    /\ gs' = [gs EXCEPT ![t].pc = "ret", ![t].cached = stats.CachedResponses]
    /\ UNCHANGED <<filterVars, call, cacheVars, got, serverVars, updVars, ingestVars, lockVars, admVars, cliVars,
                   poolVars, files, apiCustom, fetches, last, could>>

\* the server with filtering on and the NXDOMAIN block action
StatsSpecInit ==
    /\ ServerFilterInit /\ cfg.FilteringEnabled /\ cfg.BlockAction = "nxdomain"
    /\ CacheInit /\ got = NoGet /\ ServerInit /\ UpdIdle

StatsNext ==
    \/ \E w \in Handlers : Receive(w)
    \/ \E w \in Handlers : CheckCache(w)
    \/ \E w \in Handlers : Hit(w)
    \/ \E w \in Handlers : FilterWhitelist(w)
    \/ \E w \in Handlers : FilterLookup(w)
    \/ \E w \in Handlers : CountBlocked(w)
    \/ \E w \in Handlers : LogAndAnswerBlocked(w)
    \/ \E w \in Handlers : Forward(w)
    \/ \E w \in Handlers : UpstreamError(w)
    \/ \E w \in Handlers : UpstreamAnswer(w)
    \/ \E t \in StatsReaders : GLock(t)
    \/ \E t \in StatsReaders : GTotal(t)
    \/ \E t \in StatsReaders : GBlocked(t)
    \/ \E t \in StatsReaders : GCached(t)

SpecStats == StatsSpecInit /\ [][StatsNext]_vars

-----------------------------------------------------------------------------
(* C24: a statistics snapshot is a coherent read.                          *)

\* C24: what a GetStats call returns is the three counters as they stood at
\* one instant, the one at which the call took the read lock, whatever the
\* handlers do meanwhile; and blocked + cached <= total holds of the
\* counters at every instant, hence of every snapshot
C24_CoherentSnapshot ==
    /\ stats.BlockedQueries + stats.CachedResponses <= stats.TotalQueries
    /\ \A t \in StatsReaders :
          gs[t].pc = "ret" =>
             /\ [TotalQueries |-> gs[t].total, BlockedQueries |-> gs[t].blocked,
                 CachedResponses |-> gs[t].cached] = gs[t].at
             /\ gs[t].blocked + gs[t].cached <= gs[t].total

\* a snapshot was taken between the two counter updates of a handler: it
\* shows the second query counted and not yet counted as blocked, and the
\* handler has gone on since
C24_Witness ==
    \E t \in StatsReaders :
       /\ gs[t].pc = "ret"
       /\ gs[t].total = 2
       /\ gs[t].blocked = 1
       /\ stats.BlockedQueries = 2

-----------------------------------------------------------------------------
(* C25: with filtering switched off nothing is blocked.                    *)

\* C25: when cfg.Filtering.Enabled is false no handler enters the filter or
\* the block path, no reply is the block response, BlockedQueries stays 0
\* and no block event is written, although the remote set lists w.a.b, the
\* custom set may list a.b and a strict schedule window is open; every query
\* that misses the cache is sent to the upstream, once
C25_DisabledNeverBlocks ==
    ~cfg.FilteringEnabled =>
       /\ stats.BlockedQueries = 0
       /\ blockLog = <<>>
       /\ \A w \in Handlers :
             /\ h[w].pc \notin {"filter", "lookup", "blocked", "logblock"}
             /\ h[w].path # "blocked"
             /\ Done(w) => TheReply(w).origin = "upstream" \/ h[w].path \in {"empty", "hit", "servfail"}
             /\ (Done(w) /\ h[w].path \notin {"empty", "hit"}) =>
                   /\ h[w].path \in {"upstream", "servfail"}
                   /\ h[w].upstreamCalls = 1

\* with filtering off, a query for a name on the remote list and a query for
\* a name the admin added to the custom list have both missed the cache and
\* been answered by the upstream, inside the strict schedule window
C25_Witness ==
    /\ ~cfg.FilteringEnabled
    /\ scheduleBlocks
    /\ N_ab \in customBlocked
    /\ Done(1) /\ h[1].path = "upstream" /\ Name(1) = N_wabdot
    /\ Done(2) /\ h[2].path = "upstream" /\ Name(2) = N_abdot
    /\ ShouldBlock(Name(1)) /\ ShouldBlock(Name(2))
    /\ stats = [TotalQueries |-> 2, BlockedQueries |-> 0, CachedResponses |-> 0]

-----------------------------------------------------------------------------
(* ShouldBlock beside the admin mutators and the replacement of the remote *)
(* set.  A call reads the filter in two sections of e.mu.RLock: the one    *)
(* inside isWhitelisted (engine.go:130-131) and the one that covers the    *)
(* lookups (engine.go:104-105); each section is one step, a writer's       *)
(* Lock ... Unlock section is one step, and the lock is free in between.   *)

\* the names asked for
RaceNames == {N_abdot, N_wabdot}

\* the decision of ShouldBlock (engine.go:84-127) over given sets: what a
\* call returns when the three sets are these from its first line to its
\* last
decisionOver(n, wl, custom, remote) ==
    LET d == normalizeDomain(n) IN
    IF d = <<>> THEN FALSE
    ELSE IF \/ d \in wl
            \/ \E w \in wl : /\ HasPrefix(w, <<"*", ".">>)
                             /\ HasSuffix(d, TrimPrefix(w, <<"*", ".">>))
         THEN FALSE
    ELSE IF scheduleBlocks THEN TRUE
    ELSE lookupOver(d, remote, custom)

\* the decisions that the states a call ran across would give: the state at
\* the call, and every state a writer produced before the call returned
Tracked(r, n) ==
    [t \in DOMAIN could \cup {r} |->
        IF t = r
        THEN [n |-> n,
              seen |-> {decisionOver(n, whitelist, customBlocked, blockedDomains)}]
        ELSE could[t]]

\* ShouldBlock, lines 84-90: the call, normalizeDomain, the empty name
VCall(r) ==
    /\ rd[r].pc \in {"idle", "ret"}
    /\ rd[r].calls < MaxCalls
    /\ \E n \in RaceNames :
          /\ rd' = [rd EXCEPT ![r] =
                       [IdleReader EXCEPT
                           !.pc = IF normalizeDomain(n) = <<>> THEN "ret" ELSE "wl",
                           !.d = normalizeDomain(n), !.calls = rd[r].calls + 1]]
          /\ could' = Tracked(r, n)
    /\ UNCHANGED <<filterVars, call, cacheVars, got, serverVars, ingestVars, lockVars, admVars, cliVars, poolVars,
                   mu, u, swapNo, returnedNo, complete, dbBlocklist,
                   files, apiCustom, fetches, last, gs>>

\* ShouldBlock, lines 92-95: isWhitelisted, the first RLock section
VWhitelist(r) ==
    /\ rd[r].pc = "wl"
    /\ IF isWhitelisted(rd[r].d)
       THEN rd' = [rd EXCEPT ![r].pc = "ret", ![r].result = FALSE]
       ELSE rd' = [rd EXCEPT ![r].pc = "sched"]
    /\ UNCHANGED <<filterVars, call, cacheVars, got, serverVars, ingestVars, lockVars, restVars, admVars, cliVars, poolVars,
                   mu, u, swapNo, returnedNo, complete, dbBlocklist>>

\* ShouldBlock, lines 97-126: the schedule check and the second RLock
\* section with all its lookups, to the return
VLookup(r) ==
    /\ rd[r].pc = "sched"
    /\ rd' = [rd EXCEPT ![r].pc = "ret",
                        ![r].result = scheduleBlocks \/ lookupBlocked(rd[r].d)]
    /\ UNCHANGED <<filterVars, call, cacheVars, got, serverVars, ingestVars, lockVars, restVars, admVars, cliVars, poolVars,
                   mu, u, swapNo, returnedNo, complete, dbBlocklist>>

\* a writer has changed the filter: every call under way has run across the
\* new state
Witnessed ==
    could' = [t \in DOMAIN could |->
                 IF rd[t].pc \in {"wl", "sched"}
                 THEN [could[t] EXCEPT !.seen = @ \cup
                         {decisionOver(could[t].n, whitelist', customBlocked',
                                       blockedDomains')}]
                 ELSE could[t]]

\* Engine.AddToWhitelist (engine.go:353-359)
VAddWhitelist ==
    /\ \E d \in {N_ab} : d \notin whitelist /\ AddToWhitelist(d)
    /\ UNCHANGED <<cfg, wallClock, call, cacheVars, got, serverVars, ingestVars, lockVars, admVars, cliVars, poolVars,
                   mu, u, rd, swapNo, returnedNo, complete, dbBlocklist,
                   files, apiCustom, fetches, last, gs>>
    /\ Witnessed

\* Engine.AddToCustomBlocklist (engine.go:382-388)
VAddCustom ==
    /\ \E d \in {N_ab} : d \notin customBlocked /\ AddToCustomBlocklist(d)
    /\ UNCHANGED <<cfg, wallClock, call, cacheVars, got, serverVars, ingestVars, lockVars, admVars, cliVars, poolVars,
                   mu, u, rd, swapNo, returnedNo, complete, dbBlocklist,
                   files, apiCustom, fetches, last, gs>>
    /\ Witnessed

\* Engine.UpdateBlocklists (engine.go:177-223): the new set is built from
\* what the sources deliver, installed under e.mu.Lock and saved
VUpdate ==
    /\ mu = 0
    /\ \E delivered \in SourceDeliveries :
          /\ delivered # blockedDomains
          /\ blockedDomains' = delivered
          /\ dbBlocklist' = delivered
    /\ UNCHANGED <<customBlocked, whitelist, cfg, wallClock, call, cacheVars, got, serverVars, ingestVars, lockVars,
                   admVars, cliVars, poolVars, mu, u, rd, swapNo, returnedNo, complete,
                   files, apiCustom, fetches, last, gs>>
    /\ Witnessed

\* filter.New with a stored blocklist, an empty whitelist, no schedule
RaceSpecInit ==
    /\ whitelist = {}
    /\ blockedDomains = {N_xab}
    /\ customBlocked = {}
    /\ cfg = [Schedule |-> [Enabled |-> FALSE, Rules |-> <<>>],
              FilteringEnabled |-> TRUE, BlockAction |-> "nxdomain",
              RedirectIP |-> "10.9.9.9"]
    /\ wallClock = [day |-> "monday", hhmm |-> T1200]
    /\ call = NoCall
    /\ CacheIdle
    /\ ServerIdle
    /\ UpdIdle

RaceNext ==
    \/ \E r \in Readers : VCall(r)
    \/ \E r \in Readers : VWhitelist(r)
    \/ \E r \in Readers : VLookup(r)
    \/ VAddWhitelist
    \/ VAddCustom
    \/ VUpdate

SpecRace == RaceSpecInit /\ [][RaceNext]_vars

-----------------------------------------------------------------------------
(* C27: a ShouldBlock result is the decision of one filter state.          *)

\* C27: what a ShouldBlock call returns is the decision that the whitelist,
\* the custom set and the remote set of one instant between the call and
\* its return give
C27_DecisionOfOneState ==
    \A r \in DOMAIN could :
       rd[r].pc = "ret" => rd[r].result \in could[r].seen

-----------------------------------------------------------------------------
(* The cache under every size the configuration can give it: Set, Get,     *)
(* Clear, the cleaner and the clock, each step recorded in last.           *)

\* the default config.Load puts in place of cache_size 0 (part_003:130-132)
DefaultCacheSize == 10000

\* server.cache_size as the YAML file may give it (an int; 0 when absent)
ConfiguredSizes == {0 - 1, 0, 1, 2}

\* config.Load, lines 130-132
LoadCacheSize(c) == IF c = 0 THEN DefaultCacheSize ELSE c

\* DNSCache.Set (database.go:719-733); last keeps the key and the keys that
\* the call deleted
BSet ==
    /\ setCount < MaxSets
    /\ \E key \in CacheKeys :
          /\ entries' \in CacheSet(key, SomeResponse)
          /\ last' = Did("Set", [key |-> key, evicted |-> DOMAIN entries \ DOMAIN entries'])
    /\ setCount' = setCount + 1
    /\ UNCHANGED <<updVars, ingestVars, lockVars, admVars, cliVars, poolVars, filterVars, call, now, clearedAt,
                   maxSize, got, serverVars, files, apiCustom, fetches, could, gs>>

\* DNSCache.Get (database.go:699-717)
BGet ==
    /\ \E key \in CacheKeys :
          /\ got' = [made |-> TRUE, key |-> key, hit |-> CacheHit(key),
                     seq |-> IF CacheHit(key) THEN entries[key].seq ELSE 0,
                     clearedAt |-> clearedAt]
          /\ last' = Did("Get", key)
    /\ UNCHANGED <<updVars, ingestVars, lockVars, admVars, cliVars, poolVars, filterVars, call, cacheVars,
                   serverVars, files, apiCustom, fetches, could, gs>>

\* DNSCache.Clear (database.go:735-740)
BClear ==
    /\ entries' = CacheClear
    /\ clearedAt' = setCount
    /\ last' = Did("Clear", <<>>)
    /\ UNCHANGED <<updVars, ingestVars, lockVars, admVars, cliVars, poolVars, filterVars, call, now, setCount,
                   maxSize, got, serverVars, files, apiCustom, fetches, could, gs>>

\* one sweep of DNSCache.cleanup (database.go:775-784); last keeps the keys
\* that the sweep deleted
BCleanup ==
    /\ entries' = CacheSweep
    /\ last' = Did("cleanup", DOMAIN entries \ DOMAIN entries')
    /\ UNCHANGED <<updVars, ingestVars, lockVars, admVars, cliVars, poolVars, filterVars, call, now, setCount,
                   clearedAt, maxSize, got, serverVars, files, apiCustom, fetches, could, gs>>

\* time passes
BTick ==
    /\ now < MaxTime
    /\ now' = now + 1
    /\ last' = Did("tick", <<>>)
    /\ UNCHANGED <<updVars, ingestVars, lockVars, admVars, cliVars, poolVars, filterVars, call, entries, setCount,
                   clearedAt, maxSize, got, serverVars, files, apiCustom, fetches, could, gs>>

\* NewDNSCache (database.go:686-697) with the size NewServer passes
\* (server.go:43): cfg.Server.CacheSize as config.Load returned it
BoundSpecInit ==
    /\ ServerFilterInit /\ cfg.FilteringEnabled /\ cfg.BlockAction = "nxdomain"
    /\ entries = [k \in {} |-> 0]
    /\ now = 0
    /\ setCount = 0
    /\ clearedAt = 0
    /\ maxSize \in { LoadCacheSize(c) : c \in ConfiguredSizes }
    /\ got = NoGet /\ ServerInit /\ UpdIdle

BoundNext ==
    \/ BSet
    \/ BGet
    \/ BClear
    \/ BCleanup
    \/ BTick

SpecBound == BoundSpecInit /\ [][BoundNext]_vars

-----------------------------------------------------------------------------
(* C28: the cache is bounded by maxSize.                                   *)

\* C28: in every reachable state the number of entries is at most maxSize,
\* for every maxSize that config.Load can return
C28_SizeWithinMax == Size <= maxSize

-----------------------------------------------------------------------------
(* C29: eviction removes one entry with the earliest insertion time.       *)

\* the entries with the earliest timestamp
Oldest == { k \in DOMAIN entries :
              \A k2 \in DOMAIN entries : entries[k].timestamp <= entries[k2].timestamp }

\* this Set step deleted exactly one entry, one of the oldest, before it
\* stored its own, and left every other entry as it was
EvictedOneOldest ==
    \E k \in Oldest :
       /\ DOMAIN entries' = ((DOMAIN entries) \ {k}) \cup {last'.arg.key}
       /\ \A k2 \in (DOMAIN entries') \ {last'.arg.key} : entries'[k2] = entries[k2]
       /\ entries'[last'.arg.key].timestamp = now

\* this Set step deleted nothing and stored its entry
EvictedNone ==
    /\ DOMAIN entries' = (DOMAIN entries) \cup {last'.arg.key}
    /\ \A k2 \in (DOMAIN entries') \ {last'.arg.key} : entries'[k2] = entries[k2]
    /\ entries'[last'.arg.key].timestamp = now

-----------------------------------------------------------------------------
(* C30: Get and the cleaner agree on what is expired.                      *)

\* the age of an entry
Age(k) == now - entries[k].timestamp

\* C30: a Get returns the entry exactly when the key is present and the
\* entry's age is at most ttl, and changes nothing in the cache; a sweep of
\* the cleaner deletes exactly the entries whose age exceeds ttl, none that a
\* Get would return, and leaves the others as they were
C30_ExpiryConsistent ==
    [][ /\ last'.op = "Get" =>
              /\ got'.hit = (got'.key \in DOMAIN entries /\ Age(got'.key) <= CacheTTL)
              /\ entries' = entries
        /\ last'.op = "cleanup" =>
              /\ DOMAIN entries' = { k \in DOMAIN entries : Age(k) <= CacheTTL }
              /\ \A k \in DOMAIN entries' : entries'[k] = entries[k]
              /\ \A k \in CacheKeys : CacheHit(k) => k \in DOMAIN entries' ]_vars

\* a sweep deleted an expired entry and kept one whose age is exactly ttl,
\* which the Get before it had returned
C30_Witness ==
    /\ last.op = "cleanup"
    /\ last.arg # {}
    /\ got.made /\ got.hit
    /\ got.key \in DOMAIN entries
    /\ Age(got.key) = CacheTTL
    /\ entries[got.key].seq = got.seq

-----------------------------------------------------------------------------
(* The cache hit of handleDNSRequest (specification Spec).                 *)

\* the reply written on handler w's cache hit, over the handlers hh and the
\* replies rr: the handler made no upstream call and no cache write, and some
\* other query for the same name and type was answered by the upstream with
\* the answer section this reply carries, under this query's own ID
HitOutcome(hh, rr, w) ==
    /\ hh[w].upstreamCalls = 0
    /\ hh[w].cacheSets = 0
    /\ Len(rr[w]) = 1
    /\ rr[w][1].Id = hh[w].r.Id
    /\ \E v \in Handlers \ {w} :
          /\ hh[v].path = "upstream"
          /\ hh[v].r.Question = hh[w].r.Question
          /\ hh[v].upstreamCalls = 1
          /\ rr[v][1].Answer = rr[w][1].Answer

\* C31: on a cache hit the handler adds exactly 1 to stats.cached, does not
\* consult the filter (it goes from the cache lookup to the reply), makes no
\* upstream call and leaves stats.blocked and the cache unchanged; so of two
\* identical queries of which the second is a hit, exactly one went to the
\* upstream and the second reply carries the same answer under the second
\* query's transaction ID.
C31_HitFrame ==
    [][ \A w \in Handlers :
          /\ h'[w].pc = "hit" => h[w].pc \in {"cache", "hit"}
          /\ h[w].pc = "hit" => h'[w].pc \in {"hit", "done"}
          /\ (h[w].pc = "hit" /\ h'[w].pc = "done") =>
                /\ stats'.CachedResponses = stats.CachedResponses + 1
                /\ stats'.BlockedQueries = stats.BlockedQueries
                /\ stats'.TotalQueries = stats.TotalQueries
                /\ entries' = entries
                /\ index' = index
                /\ blockLog' = blockLog
                /\ h'[w].path = "hit"
                /\ HitOutcome(h', replies', w)
                /\ \A v \in Handlers \ {w} :
                      (/\ h[v].pc = "done"
                       /\ h[v].r.Question = h[w].r.Question
                       /\ \A x \in Handlers \ {v, w} :
                             h[x].r.Question # h[w].r.Question) =>
                         h'[v].upstreamCalls + h'[w].upstreamCalls = 1 ]_vars

\* C31 witness: the first query was answered by the upstream and stored; the
\* second, an identical query, was answered from
\* the cache within the TTL under its own transaction ID.
C31_Witness ==
    /\ h[1].pc = "done" /\ h[1].path = "upstream" /\ h[1].cacheSets = 1
    /\ h[2].pc = "done" /\ h[2].path = "hit"
    /\ h[2].r.Question = h[1].r.Question
    /\ h[1].upstreamCalls + h[2].upstreamCalls = 1
    /\ replies[2][1].Answer = replies[1][1].Answer
    /\ replies[2][1].Answer # <<>>
    /\ replies[2][1].Id = 2 /\ replies[1][1].Id = 1
    /\ stats.CachedResponses = 1 /\ stats.BlockedQueries = 0
    /\ makeKey(Name(2), Qtype(2)) \in DOMAIN entries
    /\ now - entries[makeKey(Name(2), Qtype(2))].timestamp <= CacheTTL

-----------------------------------------------------------------------------
(* The message handleBlockedDomain writes (specification Spec).            *)

\* the answer section a redirecting block action gives to request r
RedirectAnswer(r, ip) ==
    IF r.Question[1].Qtype = TypeA
    THEN <<[Name |-> r.Question[1].Name, Rrtype |-> TypeA, Ttl |-> 300, A |-> ip]>>
    ELSE <<>>

\* C32: the blocked answer copies the query's ID and question with qr = 1
\* and authoritative = true; nxdomain gives rcode 3 and no answers; redirect
\* gives an A query exactly one A record for the queried name with the
\* address redirect_ip and TTL 300, and any other type no answer; block_page
\* is redirect with the address 127.0.0.1.
C32_BlockedShape ==
    \A w \in Handlers :
       h[w].path = "blocked" =>
          /\ TheReply(w).Id = h[w].r.Id
          /\ TheReply(w).Question = h[w].r.Question
          /\ TheReply(w).Response
          /\ TheReply(w).Authoritative
          /\ cfg.BlockAction = "nxdomain" =>
                TheReply(w).Rcode = RcodeNameError /\ TheReply(w).Answer = <<>>
          /\ cfg.BlockAction = "redirect" =>
                TheReply(w).Answer = RedirectAnswer(h[w].r, cfg.RedirectIP)
          /\ cfg.BlockAction = "block_page" =>
                TheReply(w).Answer = RedirectAnswer(h[w].r, "127.0.0.1")

\* C32 witness: under redirect, a blocked A query was answered with the one
\* A record and a blocked AAAA query with no answer.
C32_Witness ==
    /\ cfg.BlockAction = "redirect"
    /\ \A w \in {1, 2} : Done(w) /\ h[w].path = "blocked"
    /\ Qtype(1) = TypeA /\ Len(TheReply(1).Answer) = 1
    /\ TheReply(1).Answer[1].A = cfg.RedirectIP
    /\ Qtype(2) = TypeAAAA /\ TheReply(2).Answer = <<>>

\* the same under block_page: the record carries 127.0.0.1
C32_WitnessBlockPage ==
    /\ cfg.BlockAction = "block_page"
    /\ \E w \in Handlers :
          /\ Done(w) /\ h[w].path = "blocked" /\ Qtype(w) = TypeA
          /\ TheReply(w).Answer[1].A = "127.0.0.1"

-----------------------------------------------------------------------------
(* The message without a question (specification Spec).                    *)

\* C33: a message with zero questions is answered, in the step that receives
\* it, with an empty reply (no answers, rcode NOERROR, the query's ID), and
\* the handler does nothing more: it makes no cache lookup, no cache write,
\* no filter call and no upstream call, and stats.blocked and stats.cached
\* are unchanged.
C33_NoQuestion ==
    [][ \A w \in Handlers :
          /\ ( h[w].pc = "idle" /\ h'[w].pc # "idle" /\ Len(h'[w].r.Question) = 0 ) =>
                /\ h'[w].pc = "done"
                /\ h'[w].upstreamCalls = 0
                /\ h'[w].cacheSets = 0
                /\ Len(replies'[w]) = 1
                /\ replies'[w][1].Id = h'[w].r.Id
                /\ replies'[w][1].Response
                /\ replies'[w][1].Rcode = RcodeSuccess
                /\ replies'[w][1].Answer = <<>>
                /\ replies'[w][1].Question = <<>>
                /\ stats'.BlockedQueries = stats.BlockedQueries
                /\ stats'.CachedResponses = stats.CachedResponses
                /\ entries' = entries
                /\ got' = got
                /\ index' = index
                /\ blockLog' = blockLog
          /\ h[w].pc = "done" => ( h'[w] = h[w] /\ replies'[w] = replies[w] ) ]_vars

\* C33 witness: a message without a question was answered while another
\* query's answer was in the cache, which still holds it.
C33_Witness ==
    /\ Done(1) /\ h[1].path = "upstream" /\ h[1].cacheSets = 1
    /\ Done(2) /\ h[2].path = "empty" /\ h[2].r.Question = <<>>
    /\ TheReply(2).Id = 2 /\ TheReply(2).Answer = <<>>
    /\ TheReply(2).Rcode = RcodeSuccess
    /\ makeKey(Name(1), Qtype(1)) \in DOMAIN entries
    /\ stats = [TotalQueries |-> 2, BlockedQueries |-> 0, CachedResponses |-> 0]

-----------------------------------------------------------------------------
(* UpstreamPool with Add and Remove beside concurrent Get calls, and with  *)
(* p.mu explicit: a Get call holds the read lock from its first line to    *)
(* its return, Add and Remove hold the write lock for their whole body.    *)

\* bounds: Get calls in all, servers in the pool
MaxPoolGets == 3
MaxPool == 3

\* everything but the pool
nonPoolVars ==
    <<filterVars, call, cacheVars, got, stats, h, replies, blockLog,
      pendingClear, enforced, updVars, restVars, admVars, cliVars,
      ingestVars, lockVars>>

\* the server lists of the configuration, the empty one included
PoolInputs ==
    { <<>>, <<"1.1.1.1:53">>, <<"8.8.8.8:53", "1.1.1.1:53">> }

\* the servers Add and Remove are called with
PoolArgs == {"8.8.8.8:53", "1.1.1.1:53", "9.9.9.9:53"}

\* NewUpstreamPool (part_005:14-23): an empty list is replaced
NewUpstreamPool(list) == IF Len(list) = 0 THEN <<"8.8.8.8:53">> ELSE list

\* p.mu taken by a writer although Get calls hold it for reading
PoolLock_NoExclusion == TRUE

\* p.mu.Lock (part_005:45, 53): the writer gets the mutex when no Get call
\* holds it for reading (part_005:27-28)
PoolLock == \A g \in Getters : getters[g].pc = "idle"

\* the pool as constructed, with the index wherever earlier calls left it
EditSpecInit ==
    /\ \E list \in PoolInputs : servers = NewUpstreamPool(list)
    /\ index \in { [hi |-> 0, lo |-> 0], [hi |-> Half - 1, lo |-> Half - 1] }
    /\ picks = <<>>
    /\ getters = [g \in Getters |-> IdleGetter]
    /\ CliIdle
    /\ stats = [TotalQueries |-> 0, BlockedQueries |-> 0, CachedResponses |-> 0]
    /\ h = [w \in Handlers |-> IdleHandler]
    /\ replies = [w \in Handlers |-> <<>>]
    /\ blockLog = <<>>
    /\ pendingClear = {}
    /\ enforced = {}
    /\ whitelist = {}
    /\ blockedDomains = {N_ab}
    /\ customBlocked = {}
    /\ cfg = [Schedule |-> [Enabled |-> FALSE, Rules |-> <<>>],
              FilteringEnabled |-> TRUE, BlockAction |-> "nxdomain",
              RedirectIP |-> "10.9.9.9"]
    /\ wallClock = [day |-> "monday", hhmm |-> T1200]
    /\ call = NoCall
    /\ CacheIdle
    /\ UpdInit

\* UpstreamPool.Get, lines 27-39 and the index expression of line 40: the
\* read lock, the two tests of len(p.servers), the atomic add; slot is the
\* position the call is going to read (from 1), 0 for the default
EGetLock(g) ==
    /\ getters[g].pc = "idle"
    /\ Len(picks) + Cardinality({g2 \in Getters : getters[g2].pc # "idle"}) < MaxPoolGets
    /\ IF Len(servers) = 0
       THEN /\ getters' = [getters EXCEPT ![g] = [pc |-> "ret", idx |-> index, slot |-> 0]]
            /\ UNCHANGED index
       ELSE IF Len(servers) = 1
       THEN /\ getters' = [getters EXCEPT ![g] = [pc |-> "ret", idx |-> index, slot |-> 1]]
            /\ UNCHANGED index
       ELSE /\ index' = AddUint32One(index)
            /\ getters' = [getters EXCEPT ![g] =
                              [pc |-> "ret", idx |-> AddUint32One(index),
                               slot |-> ModUint32(AddUint32One(index), Len(servers)) + 1]]
    /\ UNCHANGED <<servers, picks, nonPoolVars>>

\* UpstreamPool.Get, lines 31, 35, 40 and the deferred RUnlock: the element
\* is read and returned; a position outside the list is a run-time panic
EGetReturn(g) ==
    /\ getters[g].pc = "ret"
    /\ picks' = Append(picks,
                   IF getters[g].slot = 0 THEN "8.8.8.8:53"
                   ELSE IF getters[g].slot \in DOMAIN servers
                        THEN servers[getters[g].slot]
                        ELSE "panic: index out of range")
    /\ getters' = [getters EXCEPT ![g] = IdleGetter]
    /\ UNCHANGED <<servers, index, nonPoolVars>>

\* UpstreamPool.Add (part_005:44-49)
EAdd(server) ==
    /\ PoolLock
    /\ Len(servers) < MaxPool
    /\ servers' = Append(servers, server)
    /\ UNCHANGED <<index, picks, getters, nonPoolVars>>

\* UpstreamPool.Remove (part_005:52-62): the first occurrence is cut out
ERemove(server) ==
    /\ PoolLock
    /\ IF \E i \in DOMAIN servers : servers[i] = server
       THEN LET i == CHOOSE j \in DOMAIN servers :
                        /\ servers[j] = server
                        /\ \A k \in 1..(j - 1) : servers[k] # server
            IN  servers' = SubSeq(servers, 1, i - 1) \o SubSeq(servers, i + 1, Len(servers))
       ELSE UNCHANGED servers
    /\ UNCHANGED <<index, picks, getters, nonPoolVars>>

EditNext ==
    \/ \E g \in Getters : EGetLock(g)
    \/ \E g \in Getters : EGetReturn(g)
    \/ \E server \in PoolArgs : EAdd(server)
    \/ \E server \in PoolArgs : ERemove(server)

SpecPoolEdit == EditSpecInit /\ [][EditNext]_vars

\* the servers in the pool
Members == { servers[i] : i \in DOMAIN servers }

\* C34: after any sequence and interleaving of Add, Remove and Get, a Get
\* call returns a server that is in the pool when it returns or, when the
\* pool is empty, the default 8.8.8.8:53; the position it reads is never
\* outside the server list.
C34_GetReturnsMember ==
    [][ \A g \in Getters :
          ( getters[g].pc = "ret" /\ getters'[g].pc = "idle" ) =>
             /\ getters[g].slot \in {0} \cup DOMAIN servers
             /\ getters[g].slot = 0 <=> servers = <<>>
             /\ IF servers = <<>>
                THEN picks'[Len(picks')] = "8.8.8.8:53"
                ELSE picks'[Len(picks')] \in Members ]_vars

\* C34 witness: a Get call returned the pool's only server 1.1.1.1:53,
\* Remove emptied the pool, and a later Get call returned the default.
C34_Witness ==
    /\ servers = <<>>
    /\ Len(picks) = 2
    /\ picks[1] = "1.1.1.1:53"
    /\ picks[2] = "8.8.8.8:53"

\* the same after the pool grew: with three servers a call read a position
\* beyond the two the pool was constructed with
C34_WitnessGrown ==
    /\ Len(servers) = 3
    /\ Len(picks) >= 1
    /\ picks[Len(picks)] = servers[3]
    /\ servers[3] = "9.9.9.9:53"

-----------------------------------------------------------------------------
(* fetchBlocklist, fetchLocalBlocklist and parseDomainFromLine             *)
(* (engine.go:280-336, 437-468) on one blocklist body, delivered once over *)
(* HTTP and once as a file:// source.                                      *)

\* bound: the lines of a body
MaxLines == 2

S_zero      == <<"0", ".", "0", ".", "0", ".", "0">>
S_loopback  == <<"1", "2", "7", ".", "0", ".", "0", ".", "1">>
S_localhost == <<"l", "o", "c", "a", "l", "h", "o", "s", "t">>

Ln_hash     == <<"#", "a", ".", "b">>  \* "#a.b"
Ln_bang     == <<"!", "a", ".", "b">>  \* "!a.b"
Ln_bangsp   == <<"!", " ", "a", ".", "b">>  \* "! a.b"
Ln_empty    == <<>>  \* ""
Ln_space    == <<" ">>  \* " "
Ln_hosts    == <<"0", ".", "0", ".", "0", ".", "0", " ", "a", ".", "b">>  \* "0.0.0.0 a.b"
Ln_hostsW   == <<"1", "2", "7", ".", "0", ".", "0", ".", "1", " ", " ", "w", ".", "a", ".", "b">>  \* "127.0.0.1  w.a.b"
Ln_local    == <<"1", "2", "7", ".", "0", ".", "0", ".", "1", " ", "l", "o", "c", "a", "l", "h", "o", "s", "t">>  \* "127.0.0.1 localhost"
Ln_localdot == <<"1", "2", "7", ".", "0", ".", "0", ".", "1", " ", "l", "o", "c", "a", "l", "h", "o", "s", "t", ".">>  \* "127.0.0.1 localhost."
Ln_zero     == <<"0", ".", "0", ".", "0", ".", "0", " ", "0", ".", "0", ".", "0", ".", "0">>  \* "0.0.0.0 0.0.0.0"
Ln_bare     == <<"0", ".", "0", ".", "0", ".", "0">>  \* "0.0.0.0"
Ln_ad       == <<"|", "|", "a", ".", "b", "^">>  \* "||a.b^"
Ln_adpath   == <<"|", "|", "a", ".", "b", "/", "x", "^">>  \* "||a.b/x^"
Ln_plain    == <<" ", "A", ".", "B", ".", " ">>  \* " A.B. "
Ln_words    == <<"a", " ", "b">>  \* "a b"
Ln_nodot    == <<"a", "b">>  \* "ab"

\* the lines a blocklist body is made of
Lines ==
    { Ln_hash, Ln_bang, Ln_bangsp, Ln_empty, Ln_space,
      Ln_hosts, Ln_hostsW, Ln_local, Ln_localdot, Ln_zero,
      Ln_bare, Ln_ad, Ln_adpath, Ln_plain, Ln_words,
      Ln_nodot }

\* the bodies a source may deliver
Bodies == UNION { [1..n -> Lines] : n \in 0..MaxLines }

\* strings.Fields: the parts between runs of white space
Fields(s) == SelectSeq(Split(s, " "), LAMBDA part : part # <<>>)

\* strings.Contains for a one-character substring
Contains(s, c) == \E i \in 1..Len(s) : s[i] = c

\* strings.IndexAny: the first position (from 0) of a character of chars in
\* s, -1 when there is none
IndexAny(s, chars) ==
    IF \A i \in 1..Len(s) : s[i] \notin chars THEN 0 - 1
    ELSE (CHOOSE i \in 1..Len(s) :
             s[i] \in chars /\ \A j \in 1..(i - 1) : s[j] \notin chars) - 1

\* parseDomainFromLine (engine.go:437-468); <<>> is the empty string
parseDomainFromLine(line) ==
    IF /\ HasPrefix(line, S_zero) \/ HasPrefix(line, S_loopback)
       /\ Len(Fields(line)) >= 2
    THEN LET d == Fields(line)[2] IN
         IF d = S_localhost \/ d = S_zero \/ d = S_loopback THEN <<>> ELSE d
    ELSE IF HasPrefix(line, <<"|", "|">>)
    THEN LET domain == TrimSuffix(TrimPrefix(line, <<"|", "|">>), <<"^">>)
             idx == IndexAny(domain, {"/", "^", "?"})
         IN  IF idx # 0 - 1 THEN SubSeq(domain, 1, idx) ELSE domain
    ELSE IF ~Contains(line, " ") /\ Contains(line, ".")
    THEN line
    ELSE <<>>

\* the loop body both fetch functions share (engine.go:307-310, 330-333)
appendParsed(domains, line) ==
    IF parseDomainFromLine(line) # <<>>
    THEN Append(domains, normalizeDomain(parseDomainFromLine(line)))
    ELSE domains

\* fetchLocalBlocklist (engine.go:316-336): the domains of the file's lines
RECURSIVE fetchLocalBlocklist(_)
fetchLocalBlocklist(lines) ==
    IF lines = <<>> THEN <<>>
    ELSE LET line == TrimSpace(lines[Len(lines)])
             domains == fetchLocalBlocklist(SubSeq(lines, 1, Len(lines) - 1))
         IN  IF line = <<>> \/ HasPrefix(line, <<"#">>)
             THEN domains
             ELSE appendParsed(domains, line)

\* fetchBlocklist, lines 296-313: the domains of the response body's lines
RECURSIVE scanResponse(_)
scanResponse(lines) ==
    IF lines = <<>> THEN <<>>
    ELSE LET line == TrimSpace(lines[Len(lines)])
             domains == scanResponse(SubSeq(lines, 1, Len(lines) - 1))
         IN  IF line = <<>> \/ HasPrefix(line, <<"#">>) \/ HasPrefix(line, <<"!">>)
             THEN domains
             ELSE appendParsed(domains, line)

\* fetchBlocklist (engine.go:280-314) for a source of the given transport
fetchBlocklist(transport, lines) ==
    IF transport = "file" THEN fetchLocalBlocklist(lines) ELSE scanResponse(lines)

\* one body; nothing fetched yet; everything else at rest
IngestSpecInit ==
    /\ body \in Bodies
    /\ ing = IdleIngest
    /\ lk = <<>>
    /\ tk = <<>>
    /\ files = <<>>
    /\ apiCustom = {}
    /\ fetches = 0
    /\ last = NoLast
    /\ could = <<>>
    /\ gs = [t \in StatsReaders |-> IdleStats]
    /\ yaml = {}
    /\ cli = IdleCli
    /\ unblocked = {}
    /\ fromSources = {}
    /\ adm = NoOp
    /\ heap = <<>>
    /\ held = <<>>
    /\ stats = [TotalQueries |-> 0, BlockedQueries |-> 0, CachedResponses |-> 0]
    /\ h = [w \in Handlers |-> IdleHandler]
    /\ replies = [w \in Handlers |-> <<>>]
    /\ blockLog = <<>>
    /\ index = [hi |-> 0, lo |-> 0]
    /\ pendingClear = {}
    /\ enforced = {}
    /\ servers = Servers
    /\ picks = <<>>
    /\ getters = [g \in Getters |-> IdleGetter]
    /\ whitelist = {}
    /\ blockedDomains = {}
    /\ customBlocked = {}
    /\ cfg = [Schedule |-> [Enabled |-> FALSE, Rules |-> <<>>],
              FilteringEnabled |-> TRUE, BlockAction |-> "nxdomain",
              RedirectIP |-> "10.9.9.9"]
    /\ wallClock = [day |-> "monday", hhmm |-> T1200]
    /\ call = NoCall
    /\ CacheIdle
    /\ UpdInit

\* fetchBlocklist called on a source that delivers the body over HTTP
IFetchHTTP ==
    /\ "http" \notin ing.did
    /\ ing' = [ing EXCEPT !.did = @ \cup {"http"},
                          !.http = fetchBlocklist("http", body)]
    /\ UNCHANGED <<body, lockVars, filterVars, call, cacheVars, got, serverVars,
                   updVars, poolVars, cliVars, admVars, restVars>>

\* fetchBlocklist called on a file:// source whose file holds the body
IFetchFile ==
    /\ "file" \notin ing.did
    /\ ing' = [ing EXCEPT !.did = @ \cup {"file"},
                          !.file = fetchBlocklist("file", body)]
    /\ UNCHANGED <<body, lockVars, filterVars, call, cacheVars, got, serverVars,
                   updVars, poolVars, cliVars, admVars, restVars>>

IngestNext ==
    \/ IFetchHTTP
    \/ IFetchFile

SpecIngest == IngestSpecInit /\ [][IngestNext]_vars

\* the elements of a list
ListSet(l) == { l[i] : i \in DOMAIN l }

\* a line that starts with # or ! or is empty, white space aside
CommentOrEmpty(l) ==
    \/ TrimSpace(l) = <<>>
    \/ HasPrefix(TrimSpace(l), <<"#">>)
    \/ HasPrefix(TrimSpace(l), <<"!">>)

\* the body without its comment lines and empty lines
Meaningful == SelectSeq(body, LAMBDA l : ~CommentOrEmpty(l))

\* C35: ingestion skips every line that starts with # or ! and every empty
\* line, over HTTP and from a file alike: the domains returned are those of
\* the body without these lines, and the same body yields the same set of
\* domains over both transports.
C35_SameOverBothTransports ==
    /\ "http" \in ing.did => ListSet(ing.http) = ListSet(scanResponse(Meaningful))
    /\ "file" \in ing.did => ListSet(ing.file) = ListSet(fetchLocalBlocklist(Meaningful))
    /\ ing.did = {"http", "file"} => ListSet(ing.http) = ListSet(ing.file)

\* the names a hosts file gives to the machine itself
Reserved == {S_localhost, S_zero, S_loopback}

\* a line in hosts-file format
HostsLine(line) == HasPrefix(line, S_zero) \/ HasPrefix(line, S_loopback)

\* s up to the first character of chars
CutAtFirst(s, chars) ==
    SelectSeq([i \in 1..Len(s) |-> IF \E j \in 1..i : s[j] \in chars THEN "" ELSE s[i]],
              LAMBDA c : c # "")

\* the three formats, for a line handed to parseDomainFromLine
FormatsFollowed(line) ==
    LET d == parseDomainFromLine(line) IN
    /\ ( HostsLine(line) /\ Len(Fields(line)) >= 2 ) =>
          d = IF Fields(line)[2] \in Reserved THEN <<>> ELSE Fields(line)[2]
    /\ ( ~HostsLine(line) /\ HasPrefix(line, <<"|", "|">>) ) =>
          d = CutAtFirst(SubSeq(line, 3, Len(line)), {"/", "^", "?"})
    /\ ( ~HostsLine(line) /\ ~HasPrefix(line, <<"|", "|">>) ) =>
          d = IF Contains(line, ".") /\ ~Contains(line, " ") THEN line ELSE <<>>

\* C36: per-line parsing follows the three formats (hosts: the second field
\* unless it is localhost, 0.0.0.0 or 127.0.0.1; ||: the text after ||
\* truncated at the first of / ^ ?; any other line: itself iff it contains a
\* '.' and no space), so a body of hosts-format lines never contributes
\* localhost, 0.0.0.0 or 127.0.0.1 as a blocked domain.
C36_ParseFormats ==
    "http" \in ing.did =>
       /\ \A i \in DOMAIN Meaningful : FormatsFollowed(TrimSpace(Meaningful[i]))
       /\ ( \A i \in DOMAIN Meaningful : HostsLine(TrimSpace(Meaningful[i])) ) =>
             ListSet(ing.http) \cap Reserved = {}

\* the three formats alone, for every line parsed
C36_FormatsOnly ==
    "http" \in ing.did =>
       \A i \in DOMAIN Meaningful : FormatsFollowed(TrimSpace(Meaningful[i]))

-----------------------------------------------------------------------------
(* The persisted blocklist beside the remote set (specification            *)
(* SpecUpdate).                                                            *)

\* every UpdateBlocklists call that was started has returned, and no
\* SaveBlocklist call has failed
AllUpdatesSaved ==
    /\ swapNo >= 1
    /\ \A i \in Updaters : u[i].pc = "idle" /\ ~u[i].saveFailed

\* C37: once every UpdateBlocklists run that was started (by the admin API
\* and by the auto-updater, possibly overlapping) has completed and its
\* SaveBlocklist succeeded, the blocklist persisted in the database equals
\* the in-memory remote set.
C37_StoreAgreesWithMemory ==
    AllUpdatesSaved => dbBlocklist = blockedDomains

\* the same for runs that do not overlap: a run that replaces the remote set
\* while no other run is between its replacement and its save leaves, once
\* saved, the two equal
C37_SequentialRunsAgree ==
    [][ \A i \in Updaters :
          ( /\ Saves(i)
            /\ dbBlocklist' = u[i].newBlocked
            /\ swapNo = u[i].no ) => dbBlocklist' = blockedDomains' ]_vars

-----------------------------------------------------------------------------
(* The mutexes of the server (s.stats.mu, DNSCache.mu, Engine.mu,          *)
(* UpstreamPool.mu) and the tasks that take them.  A task runs the         *)
(* sequence of lock operations of one call; sync.RWMutex is modelled with  *)
(* its rule that a writer waiting in Lock keeps new readers out.           *)

Mutexes == {"stats", "cache", "filter", "pool"}

\* the tasks: two query handlers, the cache cleaner, the admin API
QueryTasks == {"q1", "q2"}
Tasks == QueryTasks \cup {"cleaner", "admin"}

IdleTask == [prog |-> <<>>, pc |-> 0, next |-> "idle"]

FreeMutex ==
    [readers |-> [t \in Tasks |-> 0], writer |-> "none", queue |-> {}, blocked |-> {}]

\* mu.Lock() ... mu.Unlock() around a section that takes no other lock
Locked(m) == <<[op |-> "Lock", m |-> m], [op |-> "Unlock", m |-> m]>>

\* mu.RLock() ... mu.RUnlock() around a section that takes no other lock
Read(m) == <<[op |-> "RLock", m |-> m], [op |-> "RUnlock", m |-> m]>>

\* a step that holds no lock: the upstream exchange, which ends within the
\* client's timeout
Work(what) == <<[op |-> "work", m |-> what]>>

\* the call returns (a handler has written its reply)
Return == [prog |-> <<>>, next |-> "end"]

\* ShouldBlock with isWhitelisted called inside the e.mu.RLock section
LookupLocks_Nested ==
    <<[op |-> "RLock", m |-> "filter"], [op |-> "RLock", m |-> "filter"],
      [op |-> "RUnlock", m |-> "filter"], [op |-> "RUnlock", m |-> "filter"]>>

\* ShouldBlock when it reaches the lookups: isWhitelisted's section
\* (engine.go:130-131), then the section of lines 104-105
LookupLocks == Read("filter") \o Read("filter")

\* the lock operations of one ShouldBlock call and its result: the empty
\* name, a whitelisted name, a strict schedule, the lookups
ShouldBlockPaths ==
    { [locks |-> <<>>, blocks |-> FALSE],
      [locks |-> Read("filter"), blocks |-> FALSE],
      [locks |-> Read("filter"), blocks |-> TRUE],
      [locks |-> LookupLocks, blocks |-> TRUE],
      [locks |-> LookupLocks, blocks |-> FALSE] }

\* handleBlockedDomain (server.go:141-191): the count, then the database
\* insert and the reply
BlockedLocks == Locked("stats")

\* forwardToUpstream (server.go:193-203): the pool, then the exchange
ForwardLocks == Read("pool") \o Work("exchange")

\* what a task does next, by the point it is at: a segment of operations
\* and the point that follows it.  handleDNSRequest (server.go:92-139)
\* counts the query; answers a message without a question or looks into the
\* cache; on a hit counts and answers, otherwise calls ShouldBlock (or
\* nothing when filtering is off or the name is empty) and goes on to
\* handleBlockedDomain or to forwardToUpstream, where the exchange fails or
\* answers and an answer is stored or not (server.go:204-217).  One sweep
\* of DNSCache.cleanup (database.go:776-783).  The admin operations: the
\* list and count getters, the mutators and UpdateBlocklists, followed by
\* ClearCache or not, ClearCache alone, GetStats
Continuations(at) ==
    CASE at = "handler" -> { [prog |-> Locked("stats"), next |-> "counted"] }
      [] at = "counted" -> { Return, [prog |-> Read("cache"), next |-> "looked"] }
      [] at = "looked" ->
            { [prog |-> Locked("stats"), next |-> "end"],
              [prog |-> ForwardLocks, next |-> "exchanged"] }
            \cup { [prog |-> sb.locks,
                    next |-> IF sb.blocks THEN "blocked" ELSE "forward"] :
                     sb \in {p \in ShouldBlockPaths : p.locks # <<>>} }
      [] at = "blocked" -> { [prog |-> BlockedLocks, next |-> "end"] }
      [] at = "forward" -> { [prog |-> ForwardLocks, next |-> "exchanged"] }
      [] at = "exchanged" -> { Return, [prog |-> Locked("cache"), next |-> "end"] }
      [] at = "cleaner" -> { [prog |-> Locked("cache"), next |-> "end"] }
      [] at = "admin" ->
            { [prog |-> Read("filter"), next |-> "end"],
              [prog |-> Locked("filter"), next |-> "changed"],
              [prog |-> Locked("cache"), next |-> "end"],
              [prog |-> Read("stats"), next |-> "end"] }
      [] at = "changed" -> { Return, [prog |-> Locked("cache"), next |-> "end"] }

\* the point a task's call begins at
Entry(t) == IF t \in QueryTasks THEN "handler" ELSE t

\* the operation task t is at
AtOp(t, op) ==
    /\ tk[t].pc >= 1
    /\ tk[t].pc <= Len(tk[t].prog)
    /\ tk[t].prog[tk[t].pc].op = op

Mu(t) == tk[t].prog[tk[t].pc].m

\* task t once the operation it is at is done: the next operation of the
\* segment, the segment that follows, or the return of the call
After(t) ==
    IF tk[t].pc < Len(tk[t].prog) THEN { [tk[t] EXCEPT !.pc = @ + 1] }
    ELSE IF tk[t].next = "end" THEN { IdleTask }
    ELSE { IF c = Return THEN IdleTask
           ELSE [prog |-> c.prog, pc |-> 1, next |-> c.next] :
             c \in Continuations(tk[t].next) }

\* all mutexes free, no task under way; everything else at rest
LiveSpecInit ==
    /\ lk = [m \in Mutexes |-> FreeMutex]
    /\ tk = [t \in Tasks |-> IdleTask]
    /\ body = <<>>
    /\ ing = IdleIngest
    /\ files = <<>>
    /\ apiCustom = {}
    /\ fetches = 0
    /\ last = NoLast
    /\ could = <<>>
    /\ gs = [t \in StatsReaders |-> IdleStats]
    /\ yaml = {}
    /\ cli = IdleCli
    /\ unblocked = {}
    /\ fromSources = {}
    /\ adm = NoOp
    /\ heap = <<>>
    /\ held = <<>>
    /\ stats = [TotalQueries |-> 0, BlockedQueries |-> 0, CachedResponses |-> 0]
    /\ h = [w \in Handlers |-> IdleHandler]
    /\ replies = [w \in Handlers |-> <<>>]
    /\ blockLog = <<>>
    /\ index = [hi |-> 0, lo |-> 0]
    /\ pendingClear = {}
    /\ enforced = {}
    /\ servers = Servers
    /\ picks = <<>>
    /\ getters = [g \in Getters |-> IdleGetter]
    /\ whitelist = {}
    /\ blockedDomains = {}
    /\ customBlocked = {}
    /\ cfg = [Schedule |-> [Enabled |-> FALSE, Rules |-> <<>>],
              FilteringEnabled |-> TRUE, BlockAction |-> "nxdomain",
              RedirectIP |-> "10.9.9.9"]
    /\ wallClock = [day |-> "monday", hhmm |-> T1200]
    /\ call = NoCall
    /\ CacheIdle
    /\ UpdInit

liveFrame ==
    <<ingestVars, filterVars, call, cacheVars, got, serverVars, updVars,
      poolVars, cliVars, admVars, restVars>>

\* a query is received, a sweep or an admin call begins
TStart(t) ==
    /\ tk[t].pc = 0
    /\ \E c \in Continuations(Entry(t)) :
          tk' = [tk EXCEPT ![t] = [prog |-> c.prog, pc |-> 1, next |-> c.next]]
    /\ UNCHANGED <<lk, liveFrame>>

\* RWMutex.RLock: granted at once when no writer has announced itself,
\* otherwise the reader sleeps until that writer unlocks
TRLock(t) ==
    /\ AtOp(t, "RLock")
    /\ t \notin lk[Mu(t)].blocked
    /\ IF lk[Mu(t)].writer = "none"
       THEN /\ lk' = [lk EXCEPT ![Mu(t)].readers[t] = @ + 1]
            /\ \E nt \in After(t) : tk' = [tk EXCEPT ![t] = nt]
       ELSE /\ lk' = [lk EXCEPT ![Mu(t)].blocked = @ \cup {t}]
            /\ UNCHANGED tk
    /\ UNCHANGED liveFrame

\* RWMutex.RUnlock
TRUnlock(t) ==
    /\ AtOp(t, "RUnlock")
    /\ lk' = [lk EXCEPT ![Mu(t)].readers[t] = @ - 1]
    /\ \E nt \in After(t) : tk' = [tk EXCEPT ![t] = nt]
    /\ UNCHANGED liveFrame

\* RWMutex.Lock, rw.w.Lock(): the writer takes rw.w when it is free and
\* announces itself, so that readers that call RLock from now on sleep;
\* otherwise it queues behind the other writers
TLockWait(t) ==
    /\ AtOp(t, "Lock")
    /\ t \notin lk[Mu(t)].queue
    /\ lk[Mu(t)].writer # t
    /\ IF lk[Mu(t)].writer = "none"
       THEN lk' = [lk EXCEPT ![Mu(t)].writer = t]
       ELSE lk' = [lk EXCEPT ![Mu(t)].queue = @ \cup {t}]
    /\ UNCHANGED <<tk, liveFrame>>

\* RWMutex.Lock, rw.w handed to a queued writer, which announces itself
TLockAnnounce(t) ==
    /\ AtOp(t, "Lock")
    /\ t \in lk[Mu(t)].queue
    /\ lk[Mu(t)].writer = "none"
    /\ lk' = [lk EXCEPT ![Mu(t)].writer = t, ![Mu(t)].queue = @ \ {t}]
    /\ UNCHANGED <<tk, liveFrame>>

\* RWMutex.Lock returns when the readers that held the mutex have left
TLock(t) ==
    /\ AtOp(t, "Lock")
    /\ lk[Mu(t)].writer = t
    /\ \A t2 \in Tasks : lk[Mu(t)].readers[t2] = 0
    /\ \E nt \in After(t) : tk' = [tk EXCEPT ![t] = nt]
    /\ UNCHANGED <<lk, liveFrame>>

\* RWMutex.Unlock: the sleeping readers are let in, then rw.w is released
TUnlock(t) ==
    /\ AtOp(t, "Unlock")
    /\ lk' = [lk EXCEPT ![Mu(t)] =
                 [readers |-> [t2 \in Tasks |->
                                 IF t2 \in lk[Mu(t)].blocked THEN @.readers[t2] + 1
                                 ELSE @.readers[t2]],
                  writer |-> "none",
                  queue |-> @.queue,
                  blocked |-> {}]]
    /\ \E nt \in After(t) :
          tk' = [t2 \in Tasks |->
                   IF t2 = t THEN nt
                   ELSE IF t2 \in lk[Mu(t)].blocked
                        THEN [tk[t2] EXCEPT !.pc = @ + 1]
                        ELSE tk[t2]]
    /\ UNCHANGED liveFrame

\* a step outside every lock section
TWork(t) ==
    /\ AtOp(t, "work")
    /\ \E nt \in After(t) : tk' = [tk EXCEPT ![t] = nt]
    /\ UNCHANGED <<lk, liveFrame>>

\* a step of task t other than the beginning of a call and the acquisition
\* of rw.w
TRun(t) ==
    \/ TRLock(t)
    \/ TRUnlock(t)
    \/ TLockWait(t)
    \/ TLock(t)
    \/ TUnlock(t)
    \/ TWork(t)

LiveNext ==
    \/ \E t \in Tasks : TStart(t)
    \/ \E t \in Tasks : TLockAnnounce(t)
    \/ \E t \in Tasks : TRun(t)

\* the scheduler runs every task that can take a step; a writer queued on
\* rw.w is not overtaken for ever (rw.w is a sync.Mutex, which hands the
\* lock over to a waiter that starves)
LiveFairness ==
    \A t \in Tasks :
       /\ WF_vars(TRun(t))
       /\ SF_vars(TLockAnnounce(t))

SpecLive == LiveSpecInit /\ [][LiveNext]_vars /\ LiveFairness

\* the locks task t holds
HeldBy(t) ==
    { m \in Mutexes : \/ lk[m].readers[t] > 0
                      \/ lk[m].writer = t /\ ~AtOp(t, "Lock") }

\* task t waits for a mutex
Blocked(t) ==
    \E m \in Mutexes : t \in lk[m].blocked \/ t \in lk[m].queue \/
                        ( lk[m].writer = t /\ AtOp(t, "Lock") )

\* C38: under fair scheduling, and with every upstream exchange ending
\* within its timeout, every received query gets its reply in the end,
\* whatever the other handlers, the cache cleaner and the admin operations
\* do: no task waits for a mutex while it holds one.
C38_EveryQueryAnswered ==
    /\ \A t \in QueryTasks : (tk[t].pc # 0) ~> (tk[t].pc = 0)
    /\ [](\A t \in Tasks : Blocked(t) => HeldBy(t) = {})

\* C38 witness: a handler waits for the filter's read lock behind an admin
\* writer that waits for the other handler's read section to end.
C38_Witness ==
    /\ "q1" \in lk["filter"].blocked
    /\ lk["filter"].readers["q2"] = 1
    /\ lk["filter"].writer = "admin" /\ AtOp("admin", "Lock")

-----------------------------------------------------------------------------
(* Round-robin selection across the wrap of the index (specification       *)
(* SpecPool).                                                              *)

\* the calls a..a+N-1, in the order in which they added to the index, have
\* all returned
WindowReturned(a) ==
    /\ a + Len(servers) - 1 <= Len(picks)
    /\ \A n \in a..(a + Len(servers) - 1) : picks[n] # "pending"

\* the servers returned by the N calls that begin with call a
WindowServers(a) == {picks[n] : n \in a..(a + Len(servers) - 1)}

\* the index has not passed 2^32 - 1 during the calls observed
NotWrapped == index.hi = Half - 1 \/ (index.hi = 0 /\ index.lo >= Len(picks))

\* C39: for a fixed pool of N >= 2 servers, any N consecutive Get calls
\* return N distinct servers, also when the calls straddle the wrap of the
\* index from 2^32 - 1 to 0.
C39_DistinctAcrossWrap ==
    Len(servers) >= 2 =>
       \A a \in 1..Len(picks) :
          WindowReturned(a) => Cardinality(WindowServers(a)) = Len(servers)

\* the same for the pools and windows on which the wrap has no effect: a
\* pool of two servers (2 divides 2^32), or an index that has not wrapped
C39_DistinctWithoutWrap ==
    (Len(servers) = 2 \/ (Len(servers) >= 2 /\ NotWrapped)) =>
       \A a \in 1..Len(picks) :
          WindowReturned(a) => Cardinality(WindowServers(a)) = Len(servers)

\* three calls on a pool of three have returned and the index has wrapped
C39_WrapSeen ==
    /\ Len(servers) = 3
    /\ ~NotWrapped
    /\ \E a \in 1..Len(picks) : WindowReturned(a)

=============================================================================
